---- MODULE Spec2Model ----
(***************************************************************************)
(* Model of docsvaultapi.py: a client binding in which every exported      *)
(* function builds a URL, sends one HTTP request, parses the XML body      *)
(* with xmltodict, checks the envelope's StatusCode and projects the       *)
(* Result payload into plain Python dicts and lists.                       *)
(*                                                                         *)
(* Python values are tagged records, Python exceptions are values that     *)
(* every helper propagates, and an XML body is a tree of elements that     *)
(* xmltodict's parse turns into nested dicts, lists, strings and None.     *)
(***************************************************************************)
EXTENDS Integers, Sequences, FiniteSets, TLC

VARIABLES pc, op, args, sent, response, outcome

\* Several callers at once: the call each caller has in hand, and what the
\* server has done so far (the tokens it has issued to a Login and the tokens
\* a Logout has ended).  The client keeps none of this.
VARIABLES calls, issued, loggedOut

vars == <<pc, op, args, sent, response, outcome, calls, issued, loggedOut>>

(***************************************************************************)
(* Bounds of the model.                                                    *)
(***************************************************************************)
\* Largest number of trailing "/" on a caller-supplied api_url.
MaxSlashes == 2
\* Largest number of item nodes (UserDetail, Group, FileDetail, Doc) in a Result.
MaxItems == 2
\* Largest number of Indexes nodes under a ListOfIndexes node.
MaxIndexes == 2
\* Number of callers that use the client at the same time.
MaxCallers == 2

(***************************************************************************)
(* Python values.                                                          *)
(***************************************************************************)
None == [t |-> "none"]
S(s) == [t |-> "str", v |-> s]
B(b) == [t |-> "bool", v |-> b]
\* A dict keeps its keys in insertion order (k) next to the mapping (v).
D(keys, f) == [t |-> "dict", k |-> keys, v |-> f]
L(q) == [t |-> "list", v |-> q]
EmptyDict == D(<<>>, <<>>)
EmptyList == L(<<>>)

\* A raised exception, as a value that every later step passes on.
Raise(kind, msg) == [t |-> "exc", kind |-> kind, msg |-> msg]
IsExc(x) == x.t = "exc"

Min(set) == CHOOSE m \in set : \A n \in set : m <= n

\* x[key] for a string key.
GetItem(x, key) ==
    CASE x.t = "exc" -> x
      [] x.t = "dict" -> IF key \in DOMAIN x.v THEN x.v[key] ELSE Raise("KeyError", key)
      [] OTHER -> Raise("TypeError", "")

\* x.get(key, default); x.get(key) is Get(x, key, None).
Get(x, key, default) ==
    CASE x.t = "exc" -> x
      [] x.t = "dict" -> IF key \in DOMAIN x.v THEN x.v[key] ELSE default
      [] OTHER -> Raise("AttributeError", "")

\* x == "literal"
Eq(x, lit) == x.t = "str" /\ x.v = lit

\* "literal" + x
Concat(lit, x) ==
    CASE x.t = "exc" -> x
      [] x.t = "str" -> S(lit \o x.v)
      [] OTHER -> Raise("TypeError", "")

\* The sequence `for item in x` runs over: the items of a list, the keys of a
\* dict in insertion order, the characters of a str (only their type matters
\* to the callers, each is a one-character str).
Iter(x) ==
    CASE x.t = "exc" -> x
      [] x.t = "list" -> x
      [] x.t = "dict" -> L([i \in 1..Len(x.k) |-> S(x.k[i])])
      [] x.t = "str" -> L([i \in 1..Len(x.v) |-> S("c")])
      [] OTHER -> Raise("TypeError", "")

\* [F(item) for item in x]: the first exception raised ends the comprehension.
ListComp(x, F(_)) ==
    LET it == Iter(x) IN
    IF IsExc(it) THEN it
    ELSE LET ys == [i \in 1..Len(it.v) |-> F(it.v[i])]
             bad == {i \in 1..Len(ys) : IsExc(ys[i])}
         IN IF bad # {} THEN ys[Min(bad)] ELSE L(ys)

\* {k1: v1, k2: v2, ...} with the values evaluated in order.
DictLit(pairs) ==
    LET bad == {i \in 1..Len(pairs) : IsExc(pairs[i][2])} IN
    IF bad # {} THEN pairs[Min(bad)][2]
    ELSE D([i \in 1..Len(pairs) |-> pairs[i][1]],
           [key \in {pairs[i][1] : i \in 1..Len(pairs)} |->
               pairs[CHOOSE i \in 1..Len(pairs) : pairs[i][1] = key][2]])

\* isinstance(x, dict)
IsDict(x) == x.t = "dict"

Digit(d) ==
    CASE d = 0 -> "0" [] d = 1 -> "1" [] d = 2 -> "2" [] d = 3 -> "3" [] d = 4 -> "4"
      [] d = 5 -> "5" [] d = 6 -> "6" [] d = 7 -> "7" [] d = 8 -> "8" [] d = 9 -> "9"

\* str(n) for an int n >= 0: its decimal digits, most significant first.
RECURSIVE str(_)
str(n) == IF n < 10 THEN Digit(n) ELSE str(n \div 10) \o Digit(n % 10)

(***************************************************************************)
(* Strings the caller supplies.  An api_url is a sequence of chunks, each  *)
(* either "/" or a piece of text without "/", so that rstrip("/") works on *)
(* it as on the characters.                                                *)
(***************************************************************************)
RECURSIVE rstrip(_, _)
rstrip(s, c) ==
    IF Len(s) > 0 /\ s[Len(s)] = c THEN rstrip(SubSeq(s, 1, Len(s) - 1), c) ELSE s

RECURSIVE Join(_)
Join(s) == IF Len(s) = 0 THEN "" ELSE Head(s) \o Join(Tail(s))

(***************************************************************************)
(* The XML body and xmltodict.parse.                                       *)
(***************************************************************************)
Elem(name, text, kids) == [name |-> name, text |-> text, kids |-> kids]
Text(name, text) == Elem(name, text, <<>>)

\* The names of the child elements, each once, in order of first occurrence.
RECURSIVE Names(_)
Names(kids) ==
    IF Len(kids) = 0 THEN <<>>
    ELSE LET n == kids[Len(kids)].name
             before == Names(SubSeq(kids, 1, Len(kids) - 1))
         IN IF \E i \in 1..Len(before) : before[i] = n THEN before ELSE Append(before, n)

\* xmltodict: an element without children is its text, or None when it has
\* none; an element with children is a dict from child name to the child's
\* value, or to the list of values when the name occurs more than once.
RECURSIVE ParseElem(_)
ParseElem(e) ==
    IF Len(e.kids) = 0
    THEN IF e.text = "" THEN None ELSE S(e.text)
    ELSE LET names == Names(e.kids) IN
         D(names,
           [n \in {names[i] : i \in 1..Len(names)} |->
               LET same == SelectSeq(e.kids, LAMBDA kid : kid.name = n) IN
               IF Len(same) = 1 THEN ParseElem(same[1])
               ELSE L([i \in 1..Len(same) |-> ParseElem(same[i])])])

\* xmltodict.parse(response.content): the root element under its own name;
\* a body that is not XML raises ExpatError.
parse(content) ==
    IF content.xml
    THEN D(<<content.root.name>>, [n \in {content.root.name} |-> ParseElem(content.root)])
    ELSE Raise("ExpatError", "")

(***************************************************************************)
(* The HTTP transport: one request sent, one response received.            *)
(***************************************************************************)
HTTP_OK == 200

\* requests.get(url, params=params) or requests.post(url, params=params): the
\* parameters go into the query string and nothing is passed as the body.
Request(method, url, params) ==
    [method |-> method, url |-> url, params |-> params, data |-> None]

\* response_dict["Docsvault"]["Response"]["StatusCode"]
StatusCode(response_dict) ==
    GetItem(GetItem(GetItem(response_dict, "Docsvault"), "Response"), "StatusCode")

\* response_dict["Docsvault"]["Response"]["Message"]
Message(response_dict) ==
    GetItem(GetItem(GetItem(response_dict, "Docsvault"), "Response"), "Message")

\* response_dict["Docsvault"]["Result"]
Result(response_dict) == GetItem(GetItem(response_dict, "Docsvault"), "Result")

\* RaiseValueError with the server's message left out of the text.
RaiseValueErrorNoMessage(label, error_message) ==
    IF IsExc(error_message) THEN error_message ELSE Raise("ValueError", label)

\* raise ValueError(label + error_message)
RaiseValueError(label, error_message) ==
    LET text == Concat(label, error_message) IN
    IF IsExc(text) THEN text ELSE Raise("ValueError", text.v)

\* A function's return: the value, unless an exception ended the function.
Return(x) == IF IsExc(x) THEN x ELSE [t |-> "return", v |-> x]

\* api_url.rstrip("/") + "/DocsvaultAPI/" + action
FullApiUrl(api_url, action) == Join(rstrip(api_url, "/")) \o "/DocsvaultAPI/" \o action

(***************************************************************************)
(* Session operations.  Each returns the requests it sent and how it       *)
(* ended.                                                                  *)
(***************************************************************************)
Call(requests, result) == [sent |-> requests, outcome |-> result]

\* The token step of Login, LoginPost and the user-id step of GetLoginUserID.
NonEmptyOr(x, message) ==
    IF IsExc(x) THEN x
    ELSE IF x.t = "none" \/ Eq(x, "") THEN Raise("ValueError", message)
    ELSE Return(x)

\* login_body with the token projected before the envelope status is
\* tested: a Result that holds a token is returned whatever StatusCode says.
login_body_token_first(resp) ==
    LET response_dict == parse(resp.content)
        status == StatusCode(response_dict)
        token_id == NonEmptyOr(GetItem(Result(response_dict), "TokenID"),
                               "Login failed. Token ID not found in API response.")
    IN IF IsExc(status) THEN status
       ELSE IF ~IsExc(token_id) THEN token_id
       ELSE IF Eq(status, "1")
       THEN RaiseValueError("Login failed. ", Message(response_dict))
       ELSE token_id

login_body(resp) ==
    LET response_dict == parse(resp.content)
        status == StatusCode(response_dict)
    IN IF IsExc(status) THEN status
       ELSE IF Eq(status, "1")
       THEN RaiseValueError("Login failed. ", Message(response_dict))
       ELSE NonEmptyOr(GetItem(Result(response_dict), "TokenID"),
                       "Login failed. Token ID not found in API response.")

docsvault_login(username, password, api_url, resp) ==
    LET action == "Login"
        params == [UserName |-> username, Password |-> password]
        full_api_url == FullApiUrl(api_url, action)
    IN Call(<<Request("GET", full_api_url \o action, params)>>,
            IF resp.status_code = HTTP_OK
            THEN login_body(resp)
            ELSE Raise("RequestException",
                       "Login request failed with status code: " \o str(resp.status_code)))

\* login_post_body reading the token where Login reads it, in Result/TokenID.
login_post_body_nested(resp) == login_body(resp)

login_post_body(resp) ==
    LET response_dict == parse(resp.content)
        status == StatusCode(response_dict)
    IN IF IsExc(status) THEN status
       ELSE IF Eq(status, "1")
       THEN RaiseValueError("Login failed. ", Message(response_dict))
       ELSE NonEmptyOr(Result(response_dict),
                       "Login failed. Token ID not found in API response.")

\* docsvault_login_post passing its parameters as the body of the POST.
docsvault_login_post_form(username, password, api_url, resp) ==
    LET action == "LoginPost"
        params == [UserName |-> username, Password |-> password]
        full_api_url == FullApiUrl(api_url, action)
    IN Call(<<[method |-> "POST", url |-> full_api_url, params |-> None, data |-> params]>>,
            IF resp.status_code = HTTP_OK
            THEN login_post_body(resp)
            ELSE Raise("RequestException",
                       "Login request failed with status code: " \o str(resp.status_code)))

docsvault_login_post(username, password, api_url, resp) ==
    LET action == "LoginPost"
        params == [UserName |-> username, Password |-> password]
        full_api_url == FullApiUrl(api_url, action)
    IN Call(<<Request("POST", full_api_url, params)>>,
            IF resp.status_code = HTTP_OK
            THEN login_post_body(resp)
            ELSE Raise("RequestException",
                       "Login request failed with status code: " \o str(resp.status_code)))

\* logout_body with the two status codes taken the other way round.
logout_body_swapped(resp) ==
    LET response_dict == parse(resp.content)
        status == StatusCode(response_dict)
    IN IF IsExc(status) THEN status
       ELSE IF Eq(status, "0")
       THEN RaiseValueError("Logout failed. ", Message(response_dict))
       ELSE Return(None)

logout_body(resp) ==
    LET response_dict == parse(resp.content)
        status == StatusCode(response_dict)
    IN IF IsExc(status) THEN status
       ELSE IF Eq(status, "1")
       THEN RaiseValueError("Logout failed. ", Message(response_dict))
       ELSE Return(None)

\* docsvault_logout that sends the token of an ended session as an empty one.
docsvault_logout_expired(token_id, username, api_url, resp) ==
    LET action == "Logout"
        params == [TokenID |-> IF token_id \in loggedOut THEN "" ELSE token_id,
                   UserName |-> username]
        full_api_url == FullApiUrl(api_url, action)
    IN Call(<<Request("GET", full_api_url, params)>>,
            IF resp.status_code = HTTP_OK
            THEN logout_body(resp)
            ELSE Raise("RequestException",
                       "Logout request failed with status code: " \o str(resp.status_code)))

\* docsvault_logout sending the request again after a non-200 response.
docsvault_logout_retry(token_id, username, api_url, resp) ==
    LET action == "Logout"
        params == [TokenID |-> token_id, UserName |-> username]
        full_api_url == FullApiUrl(api_url, action)
        request == Request("GET", full_api_url, params)
    IN Call(IF resp.status_code = HTTP_OK THEN <<request>> ELSE <<request, request>>,
            IF resp.status_code = HTTP_OK
            THEN logout_body(resp)
            ELSE Raise("RequestException",
                       "Logout request failed with status code: " \o str(resp.status_code)))

docsvault_logout(token_id, username, api_url, resp) ==
    LET action == "Logout"
        params == [TokenID |-> token_id, UserName |-> username]
        full_api_url == FullApiUrl(api_url, action)
    IN Call(<<Request("GET", full_api_url, params)>>,
            IF resp.status_code = HTTP_OK
            THEN logout_body(resp)
            ELSE Raise("RequestException",
                       "Logout request failed with status code: " \o str(resp.status_code)))

\* get_login_user_id_body with the test the other operations make: success
\* only when the status is "0".
get_login_user_id_body_zero(resp) ==
    LET response_dict == parse(resp.content)
        status == StatusCode(response_dict)
    IN IF IsExc(status) THEN status
       ELSE IF Eq(status, "0")
       THEN NonEmptyOr(GetItem(Result(response_dict), "UserID"),
                       "GetLoginUserID failed. User ID not found in API response.")
       ELSE RaiseValueError("GetLoginUserID failed. ", Message(response_dict))

\* get_login_user_id_body without the test for an empty user id.
get_login_user_id_body_unchecked(resp) ==
    LET response_dict == parse(resp.content)
        status == StatusCode(response_dict)
    IN IF IsExc(status) THEN status
       ELSE IF Eq(status, "1")
       THEN RaiseValueError("GetLoginUserID failed. ", Message(response_dict))
       ELSE Return(GetItem(Result(response_dict), "UserID"))

get_login_user_id_body(resp) ==
    LET response_dict == parse(resp.content)
        status == StatusCode(response_dict)
    IN IF IsExc(status) THEN status
       ELSE IF Eq(status, "1")
       THEN RaiseValueError("GetLoginUserID failed. ", Message(response_dict))
       ELSE NonEmptyOr(GetItem(Result(response_dict), "UserID"),
                       "GetLoginUserID failed. User ID not found in API response.")

\* docsvault_get_login_user_id with a session kept in the module: a token
\* whose Logout has succeeded is refused without asking the server.
docsvault_get_login_user_id_session(token_id, api_url, resp) ==
    LET action == "GetLoginUserID"
        params == [TokenID |-> token_id]
        full_api_url == FullApiUrl(api_url, action)
    IN IF token_id \in loggedOut
       THEN Call(<<>>, Raise("ValueError", "GetLoginUserID failed. Session has ended."))
       ELSE Call(<<Request("GET", full_api_url, params)>>,
                 IF resp.status_code = HTTP_OK
                 THEN get_login_user_id_body(resp)
                 ELSE Raise("RequestException",
                            "GetLoginUserID request failed with status code: "
                                \o str(resp.status_code)))

docsvault_get_login_user_id(token_id, api_url, resp) ==
    LET action == "GetLoginUserID"
        params == [TokenID |-> token_id]
        full_api_url == FullApiUrl(api_url, action)
    IN Call(<<Request("GET", full_api_url, params)>>,
            IF resp.status_code = HTTP_OK
            THEN get_login_user_id_body(resp)
            ELSE Raise("RequestException",
                       "GetLoginUserID request failed with status code: "
                           \o str(resp.status_code)))

(***************************************************************************)
(* Operations that succeed only on StatusCode "0".                         *)
(***************************************************************************)
\* if StatusCode == "0": return <projection> else: raise ValueError(label + Message)
WhenStatusZero(resp, label, Project(_)) ==
    LET response_dict == parse(resp.content)
        status == StatusCode(response_dict)
    IN IF IsExc(status) THEN status
       ELSE IF Eq(status, "0")
       THEN Return(Project(response_dict))
       ELSE RaiseValueError(label, Message(response_dict))

\* WrapDict without the wrapping of a lone dict.
WrapDictNever(x) == x

\* if isinstance(x, dict): x = [x]
WrapDict(x) == IF ~IsExc(x) /\ IsDict(x) THEN L(<<x>>) ELSE x

\* EqTrue without the comparison: the text as it came.
EqTrueUncompared(x) == x

\* x == "true", as a Python bool
\* EqTrue with the comparison made without regard to case.
EqTrueAnyCase(x) == IF IsExc(x) THEN x ELSE B(Eq(x, "true") \/ Eq(x, "True"))

EqTrue(x) == IF IsExc(x) THEN x ELSE B(Eq(x, "true"))

\* UserRecord with email filled from UserName.
UserRecordEmailFromName(user_detail) ==
    DictLit(<< <<"user_id", GetItem(user_detail, "UserID")>>,
               <<"user_name", GetItem(user_detail, "UserName")>>,
               <<"full_name", GetItem(user_detail, "UserFullName")>>,
               <<"description", GetItem(user_detail, "UserDescription")>>,
               <<"email", GetItem(user_detail, "UserName")>>,
               <<"dv_authentication", GetItem(user_detail, "DVAuthentication")>>,
               <<"web_access", GetItem(user_detail, "WebAccess")>>,
               <<"license_type", GetItem(user_detail, "LicenseType")>> >>)

UserRecord(user_detail) ==
    DictLit(<< <<"user_id", GetItem(user_detail, "UserID")>>,
               <<"user_name", GetItem(user_detail, "UserName")>>,
               <<"full_name", GetItem(user_detail, "UserFullName")>>,
               <<"description", GetItem(user_detail, "UserDescription")>>,
               <<"email", GetItem(user_detail, "UserEmail")>>,
               <<"dv_authentication", GetItem(user_detail, "DVAuthentication")>>,
               <<"web_access", GetItem(user_detail, "WebAccess")>>,
               <<"license_type", GetItem(user_detail, "LicenseType")>> >>)

\* return {...} of the three GetUserDetailsBy* functions
UserDetailResult(response_dict) ==
    UserRecord(GetItem(Result(response_dict), "UserDetail"))

docsvault_get_user_details_by_name(token_id, user_name, api_url, resp) ==
    LET action == "UserDetails/GetUserDetailsByName"
        params == [TokenID |-> token_id, UserName |-> user_name]
        full_api_url == FullApiUrl(api_url, action)
    IN Call(<<Request("GET", full_api_url, params)>>,
            IF resp.status_code = HTTP_OK
            THEN WhenStatusZero(resp, "Could not get user details. ", UserDetailResult)
            ELSE Raise("RequestException",
                       "Could not get user details. Status code: " \o str(resp.status_code)))

docsvault_get_user_details_by_id(token_id, user_id, api_url, resp) ==
    LET action == "UserDetails/GetUserDetailsByID"
        params == [TokenID |-> token_id, UserID |-> user_id]
        full_api_url == FullApiUrl(api_url, action)
    IN Call(<<Request("GET", full_api_url, params)>>,
            IF resp.status_code = HTTP_OK
            THEN WhenStatusZero(resp, "Could not get user details. ", UserDetailResult)
            ELSE Raise("RequestException",
                       "Could not get user details. Status code: " \o str(resp.status_code)))

docsvault_get_user_details_by_email(token_id, email, api_url, resp) ==
    LET action == "UserDetails/GetUserDetailsByEmailID"
        params == [TokenID |-> token_id, EmailID |-> email]
        full_api_url == FullApiUrl(api_url, action)
    IN Call(<<Request("GET", full_api_url, params)>>,
            IF resp.status_code = HTTP_OK
            THEN WhenStatusZero(resp, "Could not get user details. ", UserDetailResult)
            ELSE Raise("RequestException",
                       "Could not get user details. Status code: " \o str(resp.status_code)))

\* return [{...} for user_detail in user_details] of the two user-list functions
UserListResult(response_dict) ==
    ListComp(WrapDict(GetItem(Result(response_dict), "UserDetail")), UserRecord)

\* docsvault_get_readonly_users taking every 2xx status for success.
docsvault_get_readonly_users_any2xx(token_id, api_url, resp) ==
    LET action == "UserDetails/GetReadonlyUsers"
        params == [TokenID |-> token_id]
        full_api_url == FullApiUrl(api_url, action)
    IN Call(<<Request("GET", full_api_url, params)>>,
            IF resp.status_code \div 100 = 2
            THEN WhenStatusZero(resp, "Could not get readonly users. ", UserListResult)
            ELSE Raise("RequestException",
                       "Could not get readonly users. Status code: " \o str(resp.status_code)))

docsvault_get_readonly_users(token_id, api_url, resp) ==
    LET action == "UserDetails/GetReadonlyUsers"
        params == [TokenID |-> token_id]
        full_api_url == FullApiUrl(api_url, action)
    IN Call(<<Request("GET", full_api_url, params)>>,
            IF resp.status_code = HTTP_OK
            THEN WhenStatusZero(resp, "Could not get readonly users. ", UserListResult)
            ELSE Raise("RequestException",
                       "Could not get readonly users. Status code: " \o str(resp.status_code)))

docsvault_get_webaccess_users(token_id, api_url, resp) ==
    LET action == "UserDetails/GetWebAccessUsers"
        params == [TokenID |-> token_id]
        full_api_url == FullApiUrl(api_url, action)
    IN Call(<<Request("GET", full_api_url, params)>>,
            IF resp.status_code = HTTP_OK
            THEN WhenStatusZero(resp, "Could not get Web Access users. ", UserListResult)
            ELSE Raise("RequestException",
                       "Could not get Web Access users. Status code: "
                           \o str(resp.status_code)))

ConnectedUserRecord(user_detail) ==
    DictLit(<< <<"user_id", GetItem(user_detail, "UserID")>>,
               <<"user_name", GetItem(user_detail, "UserName")>>,
               <<"full_name", GetItem(user_detail, "UserFullName")>>,
               <<"description", GetItem(user_detail, "UserDescription")>>,
               <<"email", GetItem(user_detail, "UserEmail")>>,
               <<"dv_authentication", GetItem(user_detail, "DVAuthentication")>>,
               <<"web_access", GetItem(user_detail, "WebAccess")>>,
               <<"login_from", GetItem(user_detail, "LoginFrom")>>,
               <<"license_type", GetItem(user_detail, "LicenseType")>> >>)

ConnectedUsersResult(response_dict) ==
    ListComp(WrapDict(GetItem(Result(response_dict), "UserDetail")), ConnectedUserRecord)

docsvault_get_connected_users(token_id, api_url, resp) ==
    LET action == "UserDetails/GetConnectedUsers"
        params == [TokenID |-> token_id]
        full_api_url == FullApiUrl(api_url, action)
    IN Call(<<Request("GET", full_api_url, params)>>,
            IF resp.status_code = HTTP_OK
            THEN WhenStatusZero(resp, "Could not get connected users. ", ConnectedUsersResult)
            ELSE Raise("RequestException",
                       "Could not get connected users. Status code: "
                           \o str(resp.status_code)))

GroupRecord(group_detail) ==
    DictLit(<< <<"group_name", GetItem(group_detail, "GroupName")>>,
               <<"group_id", GetItem(group_detail, "GroupID")>>,
               <<"description", GetItem(group_detail, "Description")>> >>)

UserGroupsResult(response_dict) ==
    ListComp(WrapDict(GetItem(Result(response_dict), "Group")), GroupRecord)

\* The second definition of the name, the one the module exports.
docsvault_get_user_groups(token_id, api_url, user_id, resp) ==
    LET action == "UserDetails/GetUserGroup"
        params == [TokenID |-> token_id, UserID |-> user_id]
        full_api_url == FullApiUrl(api_url, action)
    IN Call(<<Request("GET", full_api_url, params)>>,
            IF resp.status_code = HTTP_OK
            THEN WhenStatusZero(resp, "Could not get user groups. ", UserGroupsResult)
            ELSE Raise("RequestException",
                       "Could not get user groups. Status code: " \o str(resp.status_code)))

(***************************************************************************)
(* File operations.                                                        *)
(***************************************************************************)
IndexRecord(index) ==
    DictLit(<< <<"index", GetItem(index, "Index")>>,
               <<"index_value", GetItem(index, "IndexValue")>> >>)

FileDetailsRecord(file_details) ==
    DictLit(<< <<"file_id", GetItem(file_details, "FileID")>>,
               <<"parent_id", GetItem(file_details, "ParentID")>>,
               <<"file_name", GetItem(file_details, "FileName")>>,
               <<"description", GetItem(file_details, "Description")>>,
               <<"flag_name", GetItem(file_details, "FlagName")>>,
               <<"file_size", GetItem(file_details, "FileSize")>>,
               <<"doc_type", GetItem(file_details, "DocType")>>,
               <<"pages", GetItem(file_details, "Pages")>>,
               <<"version", GetItem(file_details, "Version")>>,
               <<"version_note", GetItem(file_details, "VersionNote")>>,
               <<"version_owner", GetItem(file_details, "VersionOwner")>>,
               <<"version_owner_name", GetItem(file_details, "VersionOwnerName")>>,
               <<"modified_date", GetItem(file_details, "ModifiedDate")>>,
               <<"created_date", GetItem(file_details, "CreatedDate")>>,
               <<"accessed_date", GetItem(file_details, "AccessedDate")>>,
               <<"checked_out", EqTrue(Get(file_details, "CheckedOut", None))>>,
               <<"checked_out_by", Get(file_details, "CheckedOutBy", None)>>,
               <<"checked_out_by_name", Get(file_details, "CheckedOutByName", None)>>,
               <<"owner_id", GetItem(file_details, "OwnerID")>>,
               <<"owner_name", GetItem(file_details, "OwnerName")>>,
               <<"location", GetItem(file_details, "Location")>>,
               <<"doc_notes", GetItem(file_details, "DocNotes")>>,
               <<"profile_id", GetItem(file_details, "ProfileID")>>,
               <<"profile_name", GetItem(file_details, "ProfileName")>>,
               <<"indexes",
                 ListComp(GetItem(GetItem(file_details, "ListOfIndexes"), "Indexes"),
                          IndexRecord)>> >>)

FileDetailsResult(response_dict) ==
    FileDetailsRecord(GetItem(Result(response_dict), "FileDetail"))

\* docsvault_get_file_details with the body parsed and its envelope read
\* before the HTTP status is looked at.
docsvault_get_file_details_parse_first(token_id, api_url, file_id, resp) ==
    LET action == "FileDetails/GetFileDetailsByID"
        params == [TokenID |-> token_id, FileID |-> file_id]
        full_api_url == FullApiUrl(api_url, action)
        parsed == WhenStatusZero(resp, "Could not get file details. ", FileDetailsResult)
    IN Call(<<Request("GET", full_api_url, params)>>,
            IF IsExc(parsed) \/ resp.status_code = HTTP_OK
            THEN parsed
            ELSE Raise("RequestException",
                       "Could not get file details. Status code: " \o str(resp.status_code)))

docsvault_get_file_details(token_id, api_url, file_id, resp) ==
    LET action == "FileDetails/GetFileDetailsByID"
        params == [TokenID |-> token_id, FileID |-> file_id]
        full_api_url == FullApiUrl(api_url, action)
    IN Call(<<Request("GET", full_api_url, params)>>,
            IF resp.status_code = HTTP_OK
            THEN WhenStatusZero(resp, "Could not get file details. ", FileDetailsResult)
            ELSE Raise("RequestException",
                       "Could not get file details. Status code: " \o str(resp.status_code)))

FileByLocationRecord(file_detail) ==
    DictLit(<< <<"file_id", GetItem(file_detail, "FileID")>>,
               <<"parent_id", GetItem(file_detail, "ParentID")>>,
               <<"file_name", GetItem(file_detail, "FileName")>>,
               <<"description", GetItem(file_detail, "Description")>>,
               <<"flag_name", GetItem(file_detail, "FlagName")>>,
               <<"file_size", GetItem(file_detail, "FileSize")>>,
               <<"doc_type", GetItem(file_detail, "DocType")>>,
               <<"pages", GetItem(file_detail, "Pages")>>,
               <<"version", GetItem(file_detail, "Version")>>,
               <<"version_note", GetItem(file_detail, "VersionNote")>>,
               <<"version_owner", GetItem(file_detail, "VersionOwner")>>,
               <<"version_owner_name", GetItem(file_detail, "VersionOwnerName")>>,
               <<"modified_date", GetItem(file_detail, "ModifiedDate")>>,
               <<"created_date", GetItem(file_detail, "CreatedDate")>>,
               <<"accessed_date", GetItem(file_detail, "AccessedDate")>>,
               <<"checked_out", GetItem(file_detail, "CheckedOut")>>,
               <<"checked_out_by", GetItem(file_detail, "CheckedOutBy")>>,
               <<"checked_out_by_name", GetItem(file_detail, "CheckedOutByName")>>,
               <<"owner_id", GetItem(file_detail, "OwnerID")>>,
               <<"owner_name", GetItem(file_detail, "OwnerName")>>,
               <<"location", GetItem(file_detail, "Location")>>,
               <<"doc_notes", GetItem(file_detail, "DocNotes")>>,
               <<"profile_id", GetItem(file_detail, "ProfileID")>>,
               <<"profile_name", GetItem(file_detail, "ProfileName")>>,
               <<"list_of_indexes",
                 Get(Get(file_detail, "ListOfIndexes", EmptyDict), "Indexes", EmptyList)>> >>)

FileByLocationResult(response_dict) ==
    FileByLocationRecord(GetItem(Result(response_dict), "FileDetail"))

docsvault_get_file_details_by_location(token_id, api_url, location, resp) ==
    LET action == "FileDetails/GetFileDetailsByLocation"
        params == [TokenID |-> token_id, Location |-> location]
        full_api_url == FullApiUrl(api_url, action)
    IN Call(<<Request("GET", full_api_url, params)>>,
            IF resp.status_code = HTTP_OK
            THEN WhenStatusZero(resp, "Could not get file details. ", FileByLocationResult)
            ELSE Raise("RequestException",
                       "Could not get file details. Status code: " \o str(resp.status_code)))

\* {index["Index"]: index["IndexValue"] for index in indexes}: a dict keyed by
\* the Index values themselves (str or None); a later entry with the same key
\* replaces the value of the earlier one.
IndexValues(indexes) ==
    LET it == Iter(indexes) IN
    IF IsExc(it) THEN it
    ELSE LET key(i) == GetItem(it.v[i], "Index")
             val(i) == GetItem(it.v[i], "IndexValue")
             n == Len(it.v)
             \* what entry i raises: from its key, its value, or an unhashable key
             fault(i) == IF IsExc(key(i)) THEN key(i)
                         ELSE IF IsExc(val(i)) THEN val(i)
                         ELSE IF key(i).t \in {"dict", "list"} THEN Raise("TypeError", "")
                         ELSE None
             bad == {i \in 1..n : IsExc(fault(i))}
             first == {i \in 1..n : \A j \in 1..(i - 1) : key(j) # key(i)}
             order == [i \in 1..n |-> i]
         IN IF bad # {}
            THEN fault(Min(bad))
            ELSE D([i \in 1..Cardinality(first) |->
                       key(SelectSeq(order, LAMBDA j : j \in first)[i])],
                   [kk \in {key(i) : i \in 1..n} |->
                       val(CHOOSE i \in 1..n :
                               key(i) = kk /\ \A j \in (i + 1)..n : key(j) # kk)])

FileProfileResult(response_dict) ==
    LET file_detail == GetItem(Result(response_dict), "FileDetail")
        indexes == Get(Get(file_detail, "ListOfIndexes", EmptyDict), "Indexes", EmptyList)
        index_values == IndexValues(indexes)
    IN IF IsExc(index_values) THEN index_values
       ELSE DictLit(<< <<"flag_name", GetItem(file_detail, "FlagName")>>,
                       <<"doc_notes", GetItem(file_detail, "DocNotes")>>,
                       <<"profile_name", GetItem(file_detail, "ProfileName")>>,
                       <<"index_values", index_values>> >>)

docsvault_get_file_profile(token_id, api_url, file_id, resp) ==
    LET action == "FileDetails/GetFileProfile"
        params == [TokenID |-> token_id, FileID |-> file_id]
        full_api_url == FullApiUrl(api_url, action)
    IN Call(<<Request("GET", full_api_url, params)>>,
            IF resp.status_code = HTTP_OK
            THEN WhenStatusZero(resp, "Could not get file profile. ", FileProfileResult)
            ELSE Raise("RequestException",
                       "Could not get file profile. Status code: " \o str(resp.status_code)))

CheckedOutFileRecord(file_detail) ==
    DictLit(<< <<"file_id", GetItem(file_detail, "FileID")>>,
               <<"parent_id", GetItem(file_detail, "ParentID")>>,
               <<"file_name", GetItem(file_detail, "FileName")>>,
               <<"description", GetItem(file_detail, "Description")>>,
               <<"flag_name", GetItem(file_detail, "FlagName")>>,
               <<"file_size", GetItem(file_detail, "FileSize")>>,
               <<"doc_type", GetItem(file_detail, "DocType")>>,
               <<"pages", GetItem(file_detail, "Pages")>>,
               <<"version", GetItem(file_detail, "Version")>>,
               <<"version_note", GetItem(file_detail, "VersionNote")>>,
               <<"version_owner", GetItem(file_detail, "VersionOwner")>>,
               <<"version_owner_name", GetItem(file_detail, "VersionOwnerName")>>,
               <<"modified_date", GetItem(file_detail, "ModifiedDate")>>,
               <<"created_date", GetItem(file_detail, "CreatedDate")>>,
               <<"accessed_date", GetItem(file_detail, "AccessedDate")>>,
               <<"checked_out", EqTrue(Get(file_detail, "CheckedOut", None))>>,
               <<"checked_out_by", Get(file_detail, "CheckedOutBy", S(""))>>,
               <<"checked_out_by_name", Get(file_detail, "CheckedOutByName", S(""))>>,
               <<"owner_id", GetItem(file_detail, "OwnerID")>>,
               <<"owner_name", GetItem(file_detail, "OwnerName")>>,
               <<"location", GetItem(file_detail, "Location")>> >>)

CheckedOutFilesResult(response_dict) ==
    LET file_details == WrapDict(Get(Result(response_dict), "FileDetail", EmptyList)) IN
    DictLit(<< <<"checked_out_files", ListComp(file_details, CheckedOutFileRecord)>> >>)

docsvault_get_checked_out_files_by_user(token_id, api_url, user_id, resp) ==
    LET action == "FileDetails/GetCheckedoutFilesByUser"
        params == [TokenID |-> token_id, UserID |-> user_id]
        full_api_url == FullApiUrl(api_url, action)
    IN Call(<<Request("GET", full_api_url, params)>>,
            IF resp.status_code = HTTP_OK
            THEN WhenStatusZero(resp, "Could not get checked out files. ",
                                CheckedOutFilesResult)
            ELSE Raise("RequestException",
                       "Could not get checked out files. Status code: "
                           \o str(resp.status_code)))

FileVersionRecord(file_detail) ==
    DictLit(<< <<"file_size", GetItem(file_detail, "FileSize")>>,
               <<"version", GetItem(file_detail, "Version")>>,
               <<"version_note", GetItem(file_detail, "VersionNote")>>,
               <<"version_owner", GetItem(file_detail, "VersionOwner")>>,
               <<"version_owner_name", GetItem(file_detail, "VersionOwnerName")>>,
               <<"created_date", GetItem(file_detail, "CreatedDate")>>,
               <<"version_notes", GetItem(file_detail, "VersionNotes")>> >>)

FileVersionsResult(response_dict) ==
    LET file_details == WrapDict(Get(Result(response_dict), "FileDetail", EmptyList)) IN
    DictLit(<< <<"file_versions", ListComp(file_details, FileVersionRecord)>> >>)

docsvault_get_file_versions(token_id, api_url, file_id, resp) ==
    LET action == "FileDetails/GetFileVersion"
        params == [TokenID |-> token_id, FileID |-> file_id]
        full_api_url == FullApiUrl(api_url, action)
    IN Call(<<Request("GET", full_api_url, params)>>,
            IF resp.status_code = HTTP_OK
            THEN WhenStatusZero(resp, "Could not get file versions. ", FileVersionsResult)
            ELSE Raise("RequestException",
                       "Could not get file versions. Status code: " \o str(resp.status_code)))

RelatedFileRecord(file_detail) ==
    DictLit(<< <<"file_id", GetItem(file_detail, "FileID")>>,
               <<"description", GetItem(file_detail, "Description")>>,
               <<"location", GetItem(file_detail, "Location")>> >>)

FileRelationsResult(response_dict) ==
    LET file_details == WrapDict(Get(Result(response_dict), "FileDetail", EmptyList)) IN
    DictLit(<< <<"related_documents", ListComp(file_details, RelatedFileRecord)>> >>)

docsvault_get_file_relations(token_id, api_url, file_id, resp) ==
    LET action == "FileDetails/GetFileRelations"
        params == [TokenID |-> token_id, FileID |-> file_id]
        full_api_url == FullApiUrl(api_url, action)
    IN Call(<<Request("GET", full_api_url, params)>>,
            IF resp.status_code = HTTP_OK
            THEN WhenStatusZero(resp, "Could not get related documents. ",
                                FileRelationsResult)
            ELSE Raise("RequestException",
                       "Could not get related documents. Status code: "
                           \o str(resp.status_code)))

(***************************************************************************)
(* Folder operations.                                                      *)
(***************************************************************************)
FolderIndexRecord(index) ==
    DictLit(<< <<"index", Get(index, "Index", None)>>,
               <<"index_value", Get(index, "IndexValue", None)>> >>)

\* [{...} for index in folder_detail.get("ListOfIndexes", {}).get("Indexes", [])]
FolderIndexes(folder_detail) ==
    ListComp(Get(Get(folder_detail, "ListOfIndexes", EmptyDict), "Indexes", EmptyList),
             FolderIndexRecord)

FolderDetailsResult(response_dict) ==
    LET folder_detail == Get(Result(response_dict), "FolderDetail", EmptyDict) IN
    DictLit(<< <<"folder_id", Get(folder_detail, "FolderID", None)>>,
               <<"parent_id", Get(folder_detail, "ParentID", None)>>,
               <<"folder_name", Get(folder_detail, "FolderName", None)>>,
               <<"description", Get(folder_detail, "Description", None)>>,
               <<"flag_name", Get(folder_detail, "FlagName", None)>>,
               <<"has_child", Get(folder_detail, "HasChild", None)>>,
               <<"modified_date", Get(folder_detail, "ModifiedDate", None)>>,
               <<"created_date", Get(folder_detail, "CreatedDate", None)>>,
               <<"accessed_date", Get(folder_detail, "AccessedDate", None)>>,
               <<"checked_out", Get(folder_detail, "CheckedOut", None)>>,
               <<"checked_out_by", Get(folder_detail, "CheckedOutBy", None)>>,
               <<"checked_out_by_name", Get(folder_detail, "CheckedOutByName", None)>>,
               <<"owner_id", Get(folder_detail, "OwnerID", None)>>,
               <<"owner_name", Get(folder_detail, "OwnerName", None)>>,
               <<"location", Get(folder_detail, "Location", None)>>,
               <<"doc_notes", Get(folder_detail, "DocNotes", None)>>,
               <<"profile_id", Get(folder_detail, "ProfileID", None)>>,
               <<"profile_name", Get(folder_detail, "ProfileName", None)>>,
               <<"list_of_indexes", FolderIndexes(folder_detail)>> >>)

docsvault_get_folder_details_by_id(token_id, api_url, folder_id, resp) ==
    LET action == "FolderDetails/GetFolderDetailsByID"
        params == [TokenID |-> token_id, FolderID |-> folder_id]
        full_api_url == FullApiUrl(api_url, action)
    IN Call(<<Request("GET", full_api_url, params)>>,
            IF resp.status_code = HTTP_OK
            THEN WhenStatusZero(resp, "Could not get folder details. ", FolderDetailsResult)
            ELSE Raise("RequestException",
                       "Could not get folder details. Status code: "
                           \o str(resp.status_code)))

docsvault_get_folder_details_by_location(token_id, api_url, location, resp) ==
    LET action == "FolderDetails/GetFolderDetailsByLocation"
        params == [TokenID |-> token_id, Location |-> location]
        full_api_url == FullApiUrl(api_url, action)
    IN Call(<<Request("GET", full_api_url, params)>>,
            IF resp.status_code = HTTP_OK
            THEN WhenStatusZero(resp, "Could not get folder details. ", FolderDetailsResult)
            ELSE Raise("RequestException",
                       "Could not get folder details. Status code: "
                           \o str(resp.status_code)))

FolderProfileResult(response_dict) ==
    LET folder_detail == Get(Result(response_dict), "FolderDetail", EmptyDict) IN
    DictLit(<< <<"flag_name", Get(folder_detail, "FlagName", None)>>,
               <<"doc_notes", Get(folder_detail, "DocNotes", None)>>,
               <<"profile_name", Get(folder_detail, "ProfileName", None)>>,
               <<"list_of_indexes", FolderIndexes(folder_detail)>> >>)

docsvault_get_folder_profile(token_id, api_url, folder_id, resp) ==
    LET action == "FolderDetails/GetFolderProfile"
        params == [TokenID |-> token_id, FolderID |-> folder_id]
        full_api_url == FullApiUrl(api_url, action)
    IN Call(<<Request("GET", full_api_url, params)>>,
            IF resp.status_code = HTTP_OK
            THEN WhenStatusZero(resp, "Could not get folder profile. ", FolderProfileResult)
            ELSE Raise("RequestException",
                       "Could not get folder profile. Status code: "
                           \o str(resp.status_code)))

RelatedDocRecord(doc) ==
    DictLit(<< <<"doc_id", Get(doc, "DocID", None)>>,
               <<"doc_name", Get(doc, "DocName", None)>>,
               <<"doc_type", Get(doc, "DocType", None)>>,
               <<"version", Get(doc, "Version", None)>>,
               <<"folder_id", Get(doc, "FolderID", None)>>,
               <<"folder_name", Get(doc, "FolderName", None)>>,
               <<"location", Get(doc, "Location", None)>>,
               <<"modified_date", Get(doc, "ModifiedDate", None)>>,
               <<"created_date", Get(doc, "CreatedDate", None)>>,
               <<"accessed_date", Get(doc, "AccessedDate", None)>>,
               <<"size", Get(doc, "Size", None)>>,
               <<"extension", Get(doc, "Extension", None)>>,
               <<"checksum", Get(doc, "Checksum", None)>>,
               <<"pages", Get(doc, "Pages", None)>>,
               <<"author", Get(doc, "Author", None)>>,
               <<"title", Get(doc, "Title", None)>>,
               <<"subject", Get(doc, "Subject", None)>>,
               <<"keywords", Get(doc, "Keywords", None)>>,
               <<"category", Get(doc, "Category", None)>>,
               <<"status", Get(doc, "Status", None)>>,
               <<"comment", Get(doc, "Comment", None)>>,
               <<"owner_id", Get(doc, "OwnerID", None)>>,
               <<"owner_name", Get(doc, "OwnerName", None)>>,
               <<"file_path", Get(doc, "FilePath", None)>>,
               <<"doc_notes", Get(doc, "DocNotes", None)>>,
               <<"workflow_status", Get(doc, "WorkflowStatus", None)>>,
               <<"web_access", Get(doc, "WebAccess", None)>>,
               <<"task_id", Get(doc, "TaskID", None)>> >>)

FolderRelationsResult(response_dict) ==
    LET related_docs ==
            Get(Get(Result(response_dict), "RelatedDocs", EmptyDict), "Doc", EmptyList)
    IN ListComp(related_docs, RelatedDocRecord)

docsvault_get_folder_relations(token_id, api_url, folder_id, resp) ==
    LET action == "FolderDetails/GetFolderRelations"
        params == [TokenID |-> token_id, FolderID |-> folder_id]
        full_api_url == FullApiUrl(api_url, action)
    IN Call(<<Request("GET", full_api_url, params)>>,
            IF resp.status_code = HTTP_OK
            THEN WhenStatusZero(resp, "Could not get related documents. ",
                                FolderRelationsResult)
            ELSE Raise("RequestException",
                       "Could not get related documents. Status code: "
                           \o str(resp.status_code)))

(***************************************************************************)
(* The environment: what callers pass and what the server answers.         *)
(***************************************************************************)
Strs == {"", "a"}
Passwords == {"", "b"}
Tokens == {"", "tok-1"}

Slashes(n) == [i \in 1..n |-> "/"]
Stems == {<<>>, <<"http:", "/", "/", "host">>}
ApiUrls == {stem \o Slashes(n) : stem \in Stems, n \in 0..MaxSlashes}

\* All sequences over V of length 0..n.
SeqsUpTo(V, n) == UNION {[1..k -> V] : k \in 0..n}

\* The text of field f in the i-th node of a body.
FieldText(f, i) == f \o "-" \o Digit(i)

\* A record node: one text child per field not in drop, in the order of
\* fields; over gives the text of the fields it names ("" makes the child
\* an empty element).
RecNode(name, fields, i, drop, over) ==
    LET kept == SelectSeq(fields, LAMBDA f : f \notin drop) IN
    Elem(name, "",
         [j \in 1..Len(kept) |->
             Text(kept[j],
                  IF kept[j] \in DOMAIN over THEN over[kept[j]] ELSE FieldText(kept[j], i))])

Variant(drop, over) == [drop |-> drop, over |-> over]
NoFields == <<>>
ToSet(q) == {q[i] : i \in 1..Len(q)}

ResultElem(kids) == Elem("Result", "", kids)
NoResult == <<>>
\* A Result that holds no item node: absent, empty, or with an unrelated child.
NoItemResults == {NoResult, <<ResultElem(<<>>)>>, <<ResultElem(<<Text("Count", "0")>>)>>}

UserFields ==
    <<"UserID", "UserName", "UserFullName", "UserDescription", "UserEmail",
      "DVAuthentication", "WebAccess", "LoginFrom", "LicenseType">>
UserVariants ==
    {Variant({}, NoFields), Variant({"UserEmail"}, NoFields), Variant({"LoginFrom"}, NoFields),
     Variant({}, [UserDescription |-> ""]), Variant(ToSet(UserFields), NoFields)}
UserNodes(vs) == [i \in 1..Len(vs) |-> RecNode("UserDetail", UserFields, i, vs[i].drop, vs[i].over)]
UserResults ==
    NoItemResults \cup
    {<<ResultElem(UserNodes(vs))>> : vs \in SeqsUpTo(UserVariants, MaxItems) \ {<<>>}}
UserSample == ResultElem(UserNodes(<<Variant({}, NoFields)>>))

GroupFields == <<"GroupName", "GroupID", "Description">>
GroupVariants ==
    {Variant({}, NoFields), Variant({"Description"}, NoFields),
     Variant({}, [Description |-> ""]), Variant(ToSet(GroupFields), NoFields)}
GroupNodes(vs) == [i \in 1..Len(vs) |-> RecNode("Group", GroupFields, i, vs[i].drop, vs[i].over)]
GroupResults ==
    NoItemResults \cup
    {<<ResultElem(GroupNodes(vs))>> : vs \in SeqsUpTo(GroupVariants, MaxItems) \ {<<>>}}
GroupSample == ResultElem(GroupNodes(<<Variant({}, NoFields)>>))

IndexFields == <<"Index", "IndexValue">>
\* The ListOfIndexes child of a node: none when idx = -1, an empty element
\* when idx = 0, else idx Indexes nodes.
ListOfIndexes(idx) ==
    IF idx < 0 THEN <<>>
    ELSE <<Elem("ListOfIndexes", "",
                [j \in 1..idx |-> RecNode("Indexes", IndexFields, j, {}, NoFields)])>>
IndexCounts == (0 - 1)..MaxIndexes

FileFields ==
    <<"FileID", "ParentID", "FileName", "Description", "FlagName", "FileSize", "DocType",
      "Pages", "Version", "VersionNote", "VersionOwner", "VersionOwnerName", "ModifiedDate",
      "CreatedDate", "AccessedDate", "CheckedOut", "CheckedOutBy", "CheckedOutByName",
      "OwnerID", "OwnerName", "Location", "DocNotes", "ProfileID", "ProfileName",
      "VersionNotes">>
\* A FileDetail node; co is the CheckedOut text, or "absent" for no such child.
FileNode(i, co, idx, drop) ==
    LET node == RecNode("FileDetail", FileFields, i,
                        IF co = "absent" THEN drop \cup {"CheckedOut"} ELSE drop,
                        [CheckedOut |-> co])
    IN Elem("FileDetail", "", node.kids \o ListOfIndexes(idx))
CheckedOutTexts == {"true", "false", "True", "1", "", "absent"}
FileDrops == {{}, {"OwnerID"}, {"CheckedOutBy"}}
FileSample == ResultElem(<<FileNode(1, "true", MaxIndexes, {})>>)
\* Results of the operations on one file: at most one FileDetail node in
\* every shape, and one Result with two nodes.
FileResults ==
    NoItemResults \cup
    {<<ResultElem(<<FileNode(1, co, idx, drop)>>)>> :
        co \in CheckedOutTexts, idx \in IndexCounts, drop \in FileDrops} \cup
    {<<ResultElem(<<FileNode(1, "true", 1, {}), FileNode(2, "false", 1, {})>>)>>,
     <<ResultElem(<<Elem("FileDetail", "", <<>>)>>)>>}

FileItemVariants ==
    {[co |-> "true", drop |-> {}], [co |-> "false", drop |-> {}],
     [co |-> "absent", drop |-> {}], [co |-> "True", drop |-> {"Location"}],
     [co |-> "True", drop |-> {}], [co |-> "1", drop |-> {}]}
FileNodes(vs) == [i \in 1..Len(vs) |-> FileNode(i, vs[i].co, 1, vs[i].drop)]
\* Results of the operations that list files.
FileListResults ==
    NoItemResults \cup
    {<<ResultElem(FileNodes(vs))>> : vs \in SeqsUpTo(FileItemVariants, MaxItems) \ {<<>>}} \cup
    {<<ResultElem(<<Elem("FileDetail", "", <<>>)>>)>>}

FolderFields ==
    <<"FolderID", "ParentID", "FolderName", "Description", "FlagName", "HasChild",
      "ModifiedDate", "CreatedDate", "AccessedDate", "CheckedOut", "CheckedOutBy",
      "CheckedOutByName", "OwnerID", "OwnerName", "Location", "DocNotes", "ProfileID",
      "ProfileName">>
FolderNode(i, idx, drop) ==
    LET node == RecNode("FolderDetail", FolderFields, i, drop, NoFields)
    IN Elem("FolderDetail", "", node.kids \o ListOfIndexes(idx))
FolderSample == ResultElem(<<FolderNode(1, MaxIndexes, {})>>)
FolderResults ==
    NoItemResults \cup
    {<<ResultElem(<<FolderNode(1, idx, drop)>>)>> :
        idx \in IndexCounts, drop \in {{}, {"HasChild"}}} \cup
    {<<ResultElem(<<FolderNode(1, 1, {}), FolderNode(2, 1, {})>>)>>,
     <<ResultElem(<<Elem("FolderDetail", "", <<>>)>>)>>}

DocFields ==
    <<"DocID", "DocName", "DocType", "Version", "FolderID", "FolderName", "Location",
      "ModifiedDate", "CreatedDate", "AccessedDate", "Size", "Extension", "Checksum",
      "Pages", "Author", "Title", "Subject", "Keywords", "Category", "Status", "Comment",
      "OwnerID", "OwnerName", "FilePath", "DocNotes", "WorkflowStatus", "WebAccess",
      "TaskID">>
DocVariants ==
    {Variant({}, NoFields), Variant({"Title"}, NoFields), Variant(ToSet(DocFields), NoFields)}
DocNodes(vs) == [i \in 1..Len(vs) |-> RecNode("Doc", DocFields, i, vs[i].drop, vs[i].over)]
\* Results of GetFolderRelations: the Doc nodes sit under a RelatedDocs node.
RelatedDocsResults ==
    NoItemResults \cup
    {<<ResultElem(<<Elem("RelatedDocs", "", DocNodes(vs))>>)>> :
        vs \in SeqsUpTo(DocVariants, MaxItems)}
RelatedDocsSample == ResultElem(<<Elem("RelatedDocs", "", DocNodes(<<Variant({}, NoFields)>>))>>)

\* Results of the session operations: the token or the user id, in the
\* places and shapes the four functions look for them.
SessionResults ==
    {NoResult, <<Text("Result", "")>>, <<Text("Result", "tok-1")>>,
     <<ResultElem(<<Text("TokenID", "tok-1")>>)>>, <<ResultElem(<<Text("TokenID", "")>>)>>,
     <<ResultElem(<<Text("UserID", "7")>>)>>, <<ResultElem(<<Text("UserID", "")>>)>>}
SessionSample == ResultElem(<<Text("TokenID", "tok-1"), Text("UserID", "7")>>)

\* The Message child of Response: absent, empty, or a text.
NoMessage == <<>>
MessageTexts == {"bad creds", "Invalid token"}
Messages == {NoMessage, <<Text("Message", "")>>} \cup {<<Text("Message", m)>> : m \in MessageTexts}

\* <Docsvault><Response><StatusCode/>[<Message/>]</Response>[<Result/>]</Docsvault>
Envelope(status, message, result) ==
    [xml |-> TRUE,
     root |-> Elem("Docsvault", "",
                   <<Elem("Response", "", <<Text("StatusCode", status)>> \o message)>>
                       \o result)]
NotXml == [xml |-> FALSE, root |-> Text("", "")]

HttpResponse(status_code, content) == [status_code |-> status_code, content |-> content]

OtherStatusCodes == {204, 404, 500}

\* The bodies a server sends to an operation whose success payloads are results.
Envelopes(results, sample) ==
    {Envelope("0", NoMessage, r) : r \in results} \cup
    {Envelope("0", <<Text("Message", "Success")>>, <<sample>>)} \cup
    {Envelope("1", m, r) : m \in Messages, r \in {NoResult, <<sample>>}} \cup
    {Envelope(st, m, r) :
        st \in {"2", ""}, m \in {NoMessage, <<Text("Message", "bad creds")>>},
        r \in {NoResult, <<sample>>}}

Responses(results, sample) ==
    {HttpResponse(HTTP_OK, c) : c \in Envelopes(results, sample) \cup {NotXml}} \cup
    {HttpResponse(sc, c) :
        sc \in OtherStatusCodes,
        c \in {NotXml, Envelope("0", NoMessage, <<sample>>),
               Envelope("1", <<Text("Message", "bad creds")>>, NoResult)}}

(***************************************************************************)
(* The functions by operation name: what a caller's call of operation o    *)
(* with arguments a does when the server answers resp.                     *)
(***************************************************************************)
Invoke(o, a, resp) ==
    CASE o = "Login" -> docsvault_login(a.username, a.password, a.api_url, resp)
      [] o = "LoginPost" -> docsvault_login_post(a.username, a.password, a.api_url, resp)
      [] o = "Logout" -> docsvault_logout(a.token_id, a.username, a.api_url, resp)
      [] o = "GetLoginUserID" -> docsvault_get_login_user_id(a.token_id, a.api_url, resp)
      [] o = "GetUserDetailsByName" ->
            docsvault_get_user_details_by_name(a.token_id, a.user_name, a.api_url, resp)
      [] o = "GetUserDetailsByID" ->
            docsvault_get_user_details_by_id(a.token_id, a.user_id, a.api_url, resp)
      [] o = "GetUserDetailsByEmailID" ->
            docsvault_get_user_details_by_email(a.token_id, a.email, a.api_url, resp)
      [] o = "GetReadonlyUsers" -> docsvault_get_readonly_users(a.token_id, a.api_url, resp)
      [] o = "GetWebAccessUsers" -> docsvault_get_webaccess_users(a.token_id, a.api_url, resp)
      [] o = "GetConnectedUsers" -> docsvault_get_connected_users(a.token_id, a.api_url, resp)
      [] o = "GetUserGroup" ->
            docsvault_get_user_groups(a.token_id, a.api_url, a.user_id, resp)
      [] o = "GetFileDetailsByID" ->
            docsvault_get_file_details(a.token_id, a.api_url, a.file_id, resp)
      [] o = "GetFileDetailsByLocation" ->
            docsvault_get_file_details_by_location(a.token_id, a.api_url, a.location, resp)
      [] o = "GetFileProfile" ->
            docsvault_get_file_profile(a.token_id, a.api_url, a.file_id, resp)
      [] o = "GetCheckedoutFilesByUser" ->
            docsvault_get_checked_out_files_by_user(a.token_id, a.api_url, a.user_id, resp)
      [] o = "GetFileVersion" ->
            docsvault_get_file_versions(a.token_id, a.api_url, a.file_id, resp)
      [] o = "GetFileRelations" ->
            docsvault_get_file_relations(a.token_id, a.api_url, a.file_id, resp)
      [] o = "GetFolderDetailsByID" ->
            docsvault_get_folder_details_by_id(a.token_id, a.api_url, a.folder_id, resp)
      [] o = "GetFolderDetailsByLocation" ->
            docsvault_get_folder_details_by_location(a.token_id, a.api_url, a.location, resp)
      [] o = "GetFolderProfile" ->
            docsvault_get_folder_profile(a.token_id, a.api_url, a.folder_id, resp)
      [] o = "GetFolderRelations" ->
            docsvault_get_folder_relations(a.token_id, a.api_url, a.folder_id, resp)

(***************************************************************************)
(* The state: the call in hand (the operation, its arguments, the requests *)
(* it sent, the response it got, how it ended), or none.  The module keeps *)
(* nothing between calls: once a function has returned or raised, the      *)
(* caller holds the outcome and the next call starts from nothing.         *)
(***************************************************************************)
NoCall ==
    /\ pc = "idle"
    /\ op = "none"
    /\ args = <<>>
    /\ sent = <<>>
    /\ response = HttpResponse(0, NotXml)
    /\ outcome = None

Callers == 1..MaxCallers
\* A caller with no call in hand.  A call in hand also remembers, for the
\* properties only, which tokens Logout had ended when the call was made.
Idle ==
    [pc |-> "idle", op |-> "none", args |-> <<>>, sent |-> <<>>,
     response |-> HttpResponse(0, NotXml), outcome |-> None, before |-> {}]
NoCalls ==
    /\ calls = [c \in Callers |-> Idle]
    /\ issued = {}
    /\ loggedOut = {}

Init == NoCall /\ NoCalls

\* One call of an operation, from its first line to its return or raise.
Do(name, a, resp, call) ==
    /\ pc' = "done"
    /\ op' = name
    /\ args' = a
    /\ response' = resp
    /\ sent' = call.sent
    /\ outcome' = call.outcome
    /\ UNCHANGED <<calls, issued, loggedOut>>

\* The caller takes the outcome; nothing of the call is left in the module.
Finish ==
    /\ pc = "done"
    /\ pc' = "idle"
    /\ op' = "none"
    /\ args' = <<>>
    /\ sent' = <<>>
    /\ response' = HttpResponse(0, NotXml)
    /\ outcome' = None
    /\ UNCHANGED <<calls, issued, loggedOut>>

Login ==
    /\ pc = "idle"
    /\ \E username \in Strs, password \in Passwords, api_url \in ApiUrls,
          resp \in Responses(SessionResults, SessionSample) :
           Do("Login", [username |-> username, password |-> password, api_url |-> api_url],
              resp, docsvault_login(username, password, api_url, resp))

LoginPost ==
    /\ pc = "idle"
    /\ \E username \in Strs, password \in Passwords, api_url \in ApiUrls,
          resp \in Responses(SessionResults, SessionSample) :
           Do("LoginPost", [username |-> username, password |-> password, api_url |-> api_url],
              resp, docsvault_login_post(username, password, api_url, resp))

Logout ==
    /\ pc = "idle"
    /\ \E token_id \in Tokens, username \in Strs, api_url \in ApiUrls,
          resp \in Responses(SessionResults, SessionSample) :
           Do("Logout", [token_id |-> token_id, username |-> username, api_url |-> api_url],
              resp, docsvault_logout(token_id, username, api_url, resp))

GetLoginUserID ==
    /\ pc = "idle"
    /\ \E token_id \in Tokens, api_url \in ApiUrls,
          resp \in Responses(SessionResults, SessionSample) :
           Do("GetLoginUserID", [token_id |-> token_id, api_url |-> api_url],
              resp, docsvault_get_login_user_id(token_id, api_url, resp))

GetUserDetailsByName ==
    /\ pc = "idle"
    /\ \E token_id \in Tokens, user_name \in Strs, api_url \in ApiUrls,
          resp \in Responses(UserResults, UserSample) :
           Do("GetUserDetailsByName",
              [token_id |-> token_id, user_name |-> user_name, api_url |-> api_url],
              resp, docsvault_get_user_details_by_name(token_id, user_name, api_url, resp))

GetUserDetailsByID ==
    /\ pc = "idle"
    /\ \E token_id \in Tokens, user_id \in Strs, api_url \in ApiUrls,
          resp \in Responses(UserResults, UserSample) :
           Do("GetUserDetailsByID",
              [token_id |-> token_id, user_id |-> user_id, api_url |-> api_url],
              resp, docsvault_get_user_details_by_id(token_id, user_id, api_url, resp))

GetUserDetailsByEmailID ==
    /\ pc = "idle"
    /\ \E token_id \in Tokens, email \in Strs, api_url \in ApiUrls,
          resp \in Responses(UserResults, UserSample) :
           Do("GetUserDetailsByEmailID",
              [token_id |-> token_id, email |-> email, api_url |-> api_url],
              resp, docsvault_get_user_details_by_email(token_id, email, api_url, resp))

GetReadonlyUsers ==
    /\ pc = "idle"
    /\ \E token_id \in Tokens, api_url \in ApiUrls, resp \in Responses(UserResults, UserSample) :
           Do("GetReadonlyUsers", [token_id |-> token_id, api_url |-> api_url],
              resp, docsvault_get_readonly_users(token_id, api_url, resp))

GetWebAccessUsers ==
    /\ pc = "idle"
    /\ \E token_id \in Tokens, api_url \in ApiUrls, resp \in Responses(UserResults, UserSample) :
           Do("GetWebAccessUsers", [token_id |-> token_id, api_url |-> api_url],
              resp, docsvault_get_webaccess_users(token_id, api_url, resp))

GetConnectedUsers ==
    /\ pc = "idle"
    /\ \E token_id \in Tokens, api_url \in ApiUrls, resp \in Responses(UserResults, UserSample) :
           Do("GetConnectedUsers", [token_id |-> token_id, api_url |-> api_url],
              resp, docsvault_get_connected_users(token_id, api_url, resp))

GetUserGroup ==
    /\ pc = "idle"
    /\ \E token_id \in Tokens, api_url \in ApiUrls, user_id \in Strs,
          resp \in Responses(GroupResults, GroupSample) :
           Do("GetUserGroup", [token_id |-> token_id, api_url |-> api_url, user_id |-> user_id],
              resp, docsvault_get_user_groups(token_id, api_url, user_id, resp))

GetFileDetailsByID ==
    /\ pc = "idle"
    /\ \E token_id \in Tokens, api_url \in ApiUrls, file_id \in Strs,
          resp \in Responses(FileResults, FileSample) :
           Do("GetFileDetailsByID",
              [token_id |-> token_id, api_url |-> api_url, file_id |-> file_id],
              resp, docsvault_get_file_details(token_id, api_url, file_id, resp))

GetFileDetailsByLocation ==
    /\ pc = "idle"
    /\ \E token_id \in Tokens, api_url \in ApiUrls, location \in Strs,
          resp \in Responses(FileResults, FileSample) :
           Do("GetFileDetailsByLocation",
              [token_id |-> token_id, api_url |-> api_url, location |-> location],
              resp, docsvault_get_file_details_by_location(token_id, api_url, location, resp))

GetFileProfile ==
    /\ pc = "idle"
    /\ \E token_id \in Tokens, api_url \in ApiUrls, file_id \in Strs,
          resp \in Responses(FileResults, FileSample) :
           Do("GetFileProfile",
              [token_id |-> token_id, api_url |-> api_url, file_id |-> file_id],
              resp, docsvault_get_file_profile(token_id, api_url, file_id, resp))

GetCheckedoutFilesByUser ==
    /\ pc = "idle"
    /\ \E token_id \in Tokens, api_url \in ApiUrls, user_id \in Strs,
          resp \in Responses(FileListResults, FileSample) :
           Do("GetCheckedoutFilesByUser",
              [token_id |-> token_id, api_url |-> api_url, user_id |-> user_id],
              resp, docsvault_get_checked_out_files_by_user(token_id, api_url, user_id, resp))

GetFileVersion ==
    /\ pc = "idle"
    /\ \E token_id \in Tokens, api_url \in ApiUrls, file_id \in Strs,
          resp \in Responses(FileListResults, FileSample) :
           Do("GetFileVersion",
              [token_id |-> token_id, api_url |-> api_url, file_id |-> file_id],
              resp, docsvault_get_file_versions(token_id, api_url, file_id, resp))

GetFileRelations ==
    /\ pc = "idle"
    /\ \E token_id \in Tokens, api_url \in ApiUrls, file_id \in Strs,
          resp \in Responses(FileListResults, FileSample) :
           Do("GetFileRelations",
              [token_id |-> token_id, api_url |-> api_url, file_id |-> file_id],
              resp, docsvault_get_file_relations(token_id, api_url, file_id, resp))

GetFolderDetailsByID ==
    /\ pc = "idle"
    /\ \E token_id \in Tokens, api_url \in ApiUrls, folder_id \in Strs,
          resp \in Responses(FolderResults, FolderSample) :
           Do("GetFolderDetailsByID",
              [token_id |-> token_id, api_url |-> api_url, folder_id |-> folder_id],
              resp, docsvault_get_folder_details_by_id(token_id, api_url, folder_id, resp))

GetFolderDetailsByLocation ==
    /\ pc = "idle"
    /\ \E token_id \in Tokens, api_url \in ApiUrls, location \in Strs,
          resp \in Responses(FolderResults, FolderSample) :
           Do("GetFolderDetailsByLocation",
              [token_id |-> token_id, api_url |-> api_url, location |-> location],
              resp, docsvault_get_folder_details_by_location(token_id, api_url, location, resp))

GetFolderProfile ==
    /\ pc = "idle"
    /\ \E token_id \in Tokens, api_url \in ApiUrls, folder_id \in Strs,
          resp \in Responses(FolderResults, FolderSample) :
           Do("GetFolderProfile",
              [token_id |-> token_id, api_url |-> api_url, folder_id |-> folder_id],
              resp, docsvault_get_folder_profile(token_id, api_url, folder_id, resp))

GetFolderRelations ==
    /\ pc = "idle"
    /\ \E token_id \in Tokens, api_url \in ApiUrls, folder_id \in Strs,
          resp \in Responses(RelatedDocsResults, RelatedDocsSample) :
           Do("GetFolderRelations",
              [token_id |-> token_id, api_url |-> api_url, folder_id |-> folder_id],
              resp, docsvault_get_folder_relations(token_id, api_url, folder_id, resp))

Next ==
    \/ Login
    \/ LoginPost
    \/ Logout
    \/ GetLoginUserID
    \/ GetUserDetailsByName
    \/ GetUserDetailsByID
    \/ GetUserDetailsByEmailID
    \/ GetReadonlyUsers
    \/ GetWebAccessUsers
    \/ GetConnectedUsers
    \/ GetUserGroup
    \/ GetFileDetailsByID
    \/ GetFileDetailsByLocation
    \/ GetFileProfile
    \/ GetCheckedoutFilesByUser
    \/ GetFileVersion
    \/ GetFileRelations
    \/ GetFolderDetailsByID
    \/ GetFolderDetailsByLocation
    \/ GetFolderProfile
    \/ GetFolderRelations
    \/ Finish

Spec == Init /\ [][Next]_vars

(***************************************************************************)
(* Concurrent callers.  A call is the same function as above, seen in two  *)
(* steps: up to the request it sends (requests.get or requests.post blocks *)
(* there) and from the response to its return or raise.  Between the two   *)
(* steps other callers' calls may start and end.  The server answers each  *)
(* request as it likes.                                                    *)
(***************************************************************************)
CallerOps == {"Login", "Logout", "GetLoginUserID", "GetReadonlyUsers", "GetFileDetailsByID"}

\* The arguments callers use.  They all hold the same token, the one the
\* server issues, whether or not a Login has obtained it yet.
CallerArgs(o) ==
    IF o = "Login"
    THEN {[username |-> "a", password |-> "b", api_url |-> <<"http:", "/", "/", "host">>]}
    ELSE {[token_id |-> "tok-1", username |-> "a", file_id |-> "a",
           api_url |-> <<"http:", "/", "/", "host">>]}

\* What the server may answer to a request of operation o: a failure
\* envelope, or a success envelope with the result the operation reads.
ServerAnswers(o) ==
    {HttpResponse(HTTP_OK, Envelope("1", <<Text("Message", "Invalid token")>>, NoResult)),
     HttpResponse(HTTP_OK,
                  Envelope("0", NoMessage,
                           CASE o \in {"Login", "Logout", "GetLoginUserID"} -> <<SessionSample>>
                             [] o = "GetReadonlyUsers" -> <<UserSample>>
                             [] o = "GetFileDetailsByID" -> <<FileSample>>))}

\* Caller c calls operation o: the function runs up to its request.
StartCall(c) ==
    /\ calls[c].pc = "idle"
    /\ \E o \in CallerOps : \E a \in CallerArgs(o) :
          calls' = [calls EXCEPT ![c] =
                      [pc |-> "waiting", op |-> o, args |-> a,
                       sent |-> Invoke(o, a, Idle.response).sent,
                       response |-> Idle.response, outcome |-> None,
                       before |-> loggedOut]]
    /\ UNCHANGED <<pc, op, args, sent, response, outcome, issued, loggedOut>>

\* The server answers caller c's request and the function runs to its end.
\* The server remembers the token it issued or ended.
EndCall(c) ==
    /\ calls[c].pc = "waiting"
    /\ \E resp \in ServerAnswers(calls[c].op) :
          LET call == Invoke(calls[c].op, calls[c].args, resp)
              ok == call.outcome.t = "return"
          IN /\ calls' = [calls EXCEPT ![c] =
                            [pc |-> "done", op |-> calls[c].op, args |-> calls[c].args,
                             sent |-> call.sent, response |-> resp,
                             outcome |-> call.outcome, before |-> calls[c].before]]
             /\ issued' = IF ok /\ calls[c].op = "Login"
                          THEN issued \cup {call.outcome.v.v} ELSE issued
             /\ loggedOut' = IF ok /\ calls[c].op = "Logout"
                             THEN loggedOut \cup {calls[c].args.token_id} ELSE loggedOut
    /\ UNCHANGED <<pc, op, args, sent, response, outcome>>

\* Caller c takes the outcome of its call.
TakeOutcome(c) ==
    /\ calls[c].pc = "done"
    /\ calls' = [calls EXCEPT ![c] = Idle]
    /\ UNCHANGED <<pc, op, args, sent, response, outcome, issued, loggedOut>>

NextCallers == \E c \in Callers : StartCall(c) \/ EndCall(c) \/ TakeOutcome(c)

SpecCallers == Init /\ [][NextCallers]_vars

(***************************************************************************)
(* Positional callers of docsvault_get_user_groups.  Two def statements    *)
(* bind the name: the one at line 504 with the parameters (token_id,       *)
(* user_id, api_url) and the one at line 617 with (token_id, api_url,      *)
(* user_id).  Importing the module executes both in order and each binds   *)
(* the name anew, so after the import the name is the second function.     *)
(* A caller passes three positional arguments in the order of the          *)
(* definition they read.                                                   *)
(***************************************************************************)
\* The first definition of the name: the body of the second under another
\* parameter order.
docsvault_get_user_groups_first(token_id, user_id, api_url, resp) ==
    LET action == "UserDetails/GetUserGroup"
        params == [TokenID |-> token_id, UserID |-> user_id]
        full_api_url == FullApiUrl(api_url, action)
    IN Call(<<Request("GET", full_api_url, params)>>,
            IF resp.status_code = HTTP_OK
            THEN WhenStatusZero(resp, "Could not get user groups. ", UserGroupsResult)
            ELSE Raise("RequestException",
                       "Could not get user groups. Status code: " \o str(resp.status_code)))

\* A str as the chunks an api_url parameter is written in.
Chunks(s) == IF s = "" THEN <<>> ELSE <<s>>

\* The def statements that bind the name, in the order the import executes
\* them: the one at line 504 and the one at line 617.
UserGroupsDefs == <<"first", "second">>

\* Definition d applied to the positional arguments (a, b, c).  b and c are
\* strs written in chunks; the one bound to user_id is used whole.
ApplyDef(d, a, b, c, resp) ==
    IF d = "first"
    THEN docsvault_get_user_groups_first(a, Join(b), c, resp)
    ELSE docsvault_get_user_groups(a, b, Join(c), resp)

\* The call docsvault_get_user_groups(a, b, c) were the name bound by the
\* first def statement only.
docsvault_get_user_groups_call_first(a, b, c, resp) ==
    ApplyDef(UserGroupsDefs[1], a, b, c, resp)

\* The call docsvault_get_user_groups(a, b, c) after the import: each def
\* statement has bound the name anew, the last binding stays.
docsvault_get_user_groups_call(a, b, c, resp) ==
    ApplyDef(UserGroupsDefs[Len(UserGroupsDefs)], a, b, c, resp)

ParameterOrders == {"first", "second"}

\* The positional arguments of a caller who follows the parameter order of
\* the given definition.
Positional(order, token_id, user_id, api_url) ==
    IF order = "first"
    THEN <<token_id, Chunks(user_id), api_url>>
    ELSE <<token_id, api_url, Chunks(user_id)>>

GetUserGroupPositional ==
    /\ pc = "idle"
    /\ \E order \in ParameterOrders, token_id \in Tokens, user_id \in Strs,
          api_url \in ApiUrls, resp \in Responses(GroupResults, GroupSample) :
           LET p == Positional(order, token_id, user_id, api_url) IN
           Do("GetUserGroup",
              [order |-> order, token_id |-> token_id, user_id |-> user_id,
               api_url |-> api_url, positional |-> p],
              resp, docsvault_get_user_groups_call(p[1], p[2], p[3], resp))

NextPositional == GetUserGroupPositional \/ Finish

SpecPositional == Init /\ [][NextPositional]_vars

(***************************************************************************)
(* Views of the state used by the properties: the call's response as the   *)
(* server wrote it (the XML tree, not the parsed dict) and its outcome.    *)
(***************************************************************************)
Called == pc = "done"
Kids(e, n) == SelectSeq(e.kids, LAMBDA kid : kid.name = n)
\* The call got HTTP 200 with a well-formed envelope.
GotEnvelope == Called /\ response.status_code = 200 /\ response.content.xml
EnvResponse == Kids(response.content.root, "Response")[1]
EnvStatus == Kids(EnvResponse, "StatusCode")[1].text
EnvMessage == Kids(EnvResponse, "Message")
EnvResult == Kids(response.content.root, "Result")
\* The item nodes of the given name directly under Result.
Items(n) == IF Len(EnvResult) = 0 THEN <<>> ELSE Kids(EnvResult[1], n)
\* The node has a child for every field of the sequence.
HasAll(node, fields) ==
    \A i \in 1..Len(fields) : Len(Kids(node, fields[i])) = 1
Raised(kind) == outcome.t = "exc" /\ outcome.kind = kind
Returned == outcome.t = "return"
\* val is what the parser makes of a child with this text: None if empty.
IsTextValue(val, text) ==
    IF text = "" THEN val.t = "none" ELSE val.t = "str" /\ val.v = text

AllOps ==
    {"Login", "LoginPost", "Logout", "GetLoginUserID", "GetUserDetailsByName",
     "GetUserDetailsByID", "GetUserDetailsByEmailID", "GetReadonlyUsers",
     "GetWebAccessUsers", "GetConnectedUsers", "GetUserGroup", "GetFileDetailsByID",
     "GetFileDetailsByLocation", "GetFileProfile", "GetCheckedoutFilesByUser",
     "GetFileVersion", "GetFileRelations", "GetFolderDetailsByID",
     "GetFolderDetailsByLocation", "GetFolderProfile", "GetFolderRelations"}

\* The text each operation puts before the status code of a non-200 response.
TransportLabel(o) ==
    CASE o \in {"Login", "LoginPost"} -> "Login request failed with status code: "
      [] o = "Logout" -> "Logout request failed with status code: "
      [] o = "GetLoginUserID" -> "GetLoginUserID request failed with status code: "
      [] o \in {"GetUserDetailsByName", "GetUserDetailsByID", "GetUserDetailsByEmailID"} ->
            "Could not get user details. Status code: "
      [] o = "GetReadonlyUsers" -> "Could not get readonly users. Status code: "
      [] o = "GetWebAccessUsers" -> "Could not get Web Access users. Status code: "
      [] o = "GetConnectedUsers" -> "Could not get connected users. Status code: "
      [] o = "GetUserGroup" -> "Could not get user groups. Status code: "
      [] o \in {"GetFileDetailsByID", "GetFileDetailsByLocation"} ->
            "Could not get file details. Status code: "
      [] o = "GetFileProfile" -> "Could not get file profile. Status code: "
      [] o = "GetCheckedoutFilesByUser" -> "Could not get checked out files. Status code: "
      [] o = "GetFileVersion" -> "Could not get file versions. Status code: "
      [] o \in {"GetFileRelations", "GetFolderRelations"} ->
            "Could not get related documents. Status code: "
      [] o \in {"GetFolderDetailsByID", "GetFolderDetailsByLocation"} ->
            "Could not get folder details. Status code: "
      [] o = "GetFolderProfile" -> "Could not get folder profile. Status code: "

\* The decimal text of the status codes the servers of the model answer with.
DecimalText(n) == CASE n = 204 -> "204" [] n = 404 -> "404" [] n = 500 -> "500"

ErrorLabel(o) ==
    CASE o \in {"Login", "LoginPost"} -> "Login failed. "
      [] o = "Logout" -> "Logout failed. "
      [] o = "GetLoginUserID" -> "GetLoginUserID failed. "
      [] o \in {"GetUserDetailsByName", "GetUserDetailsByID", "GetUserDetailsByEmailID"} ->
            "Could not get user details. "
      [] o = "GetReadonlyUsers" -> "Could not get readonly users. "
      [] o = "GetWebAccessUsers" -> "Could not get Web Access users. "
      [] o = "GetConnectedUsers" -> "Could not get connected users. "
      [] o = "GetUserGroup" -> "Could not get user groups. "
      [] o \in {"GetFileDetailsByID", "GetFileDetailsByLocation"} ->
            "Could not get file details. "
      [] o = "GetFileProfile" -> "Could not get file profile. "
      [] o = "GetCheckedoutFilesByUser" -> "Could not get checked out files. "
      [] o = "GetFileVersion" -> "Could not get file versions. "
      [] o \in {"GetFileRelations", "GetFolderRelations"} -> "Could not get related documents. "
      [] o \in {"GetFolderDetailsByID", "GetFolderDetailsByLocation"} ->
            "Could not get folder details. "
      [] o = "GetFolderProfile" -> "Could not get folder profile. "

\* The envelope reports failure and carries a Message with text.
FailureWithMessage ==
    GotEnvelope /\ EnvStatus = "1" /\ Len(EnvMessage) = 1 /\ EnvMessage[1].text # ""

\* The scenario of the specification: Login of a/b at http://host, answered
\* 200 with StatusCode 1 and Message "bad creds".
LoginScenario ==
    /\ Called /\ op = "Login"
    /\ args.username = "a" /\ args.password = "b"
    /\ args.api_url = <<"http:", "/", "/", "host">>
    /\ FailureWithMessage /\ EnvMessage[1].text = "bad creds"

\* C2: for every operation, an HTTP 200 envelope with StatusCode "1" and a
\* Message with text m ends the call with a ValueError whose message is the
\* operation's label followed by m verbatim; the Login scenario fails with
\* exactly "Login failed. bad creds".
C2_FailureIsApplicationError ==
    /\ FailureWithMessage =>
          /\ Raised("ValueError")
          /\ outcome.msg = ErrorLabel(op) \o EnvMessage[1].text
    /\ LoginScenario => Raised("ValueError") /\ outcome.msg = "Login failed. bad creds"

\* The Login scenario has happened and ended with a ValueError.
C2_Witness == LoginScenario /\ Raised("ValueError")

\* The token field of a Login or LoginPost envelope is empty or absent:
\* Login reads Result/TokenID, LoginPost reads Result itself.
TokenEmptyOrAbsent ==
    IF op = "Login"
    THEN \/ Len(EnvResult) = 0
         \/ Len(Kids(EnvResult[1], "TokenID")) = 0
         \/ /\ Len(Kids(EnvResult[1], "TokenID")[1].kids) = 0
            /\ Kids(EnvResult[1], "TokenID")[1].text = ""
    ELSE \/ Len(EnvResult) = 0
         \/ Len(EnvResult[1].kids) = 0 /\ EnvResult[1].text = ""

\* C3 (as claimed): for Login and LoginPost, an HTTP 200 envelope with the
\* success indicator whose token field is empty or absent ends the call with
\* a ValueError whose message is none of the messages of a server-reported
\* failure; no token is returned and no other exception is raised.
C3_MissingTokenIsApplicationError ==
    (GotEnvelope /\ op \in {"Login", "LoginPost"} /\ EnvStatus = "0" /\ TokenEmptyOrAbsent) =>
        /\ Raised("ValueError")
        /\ outcome.msg \notin {ErrorLabel(op) \o m : m \in MessageTexts}

\* Trailing "/" removed from u leaves stem.
StripsTo(u, stem) ==
    /\ Len(stem) <= Len(u)
    /\ stem = SubSeq(u, 1, Len(stem))
    /\ \A i \in (Len(stem) + 1)..Len(u) : u[i] = "/"
    /\ Len(stem) = 0 \/ stem[Len(stem)] # "/"

\* The action path of each operation.
ActionPath(o) ==
    CASE o \in {"Login", "LoginPost", "Logout", "GetLoginUserID"} -> o
      [] o \in {"GetUserDetailsByName", "GetUserDetailsByID", "GetUserDetailsByEmailID",
                "GetReadonlyUsers", "GetWebAccessUsers", "GetConnectedUsers",
                "GetUserGroup"} -> "UserDetails/" \o o
      [] o \in {"GetFileDetailsByID", "GetFileDetailsByLocation", "GetFileProfile",
                "GetCheckedoutFilesByUser", "GetFileVersion", "GetFileRelations"} ->
            "FileDetails/" \o o
      [] OTHER -> "FolderDetails/" \o o

\* C4 (as claimed): for every operation, the URL of the request is base_url
\* with all trailing "/" removed, then "/DocsvaultAPI/", then the operation's
\* action path exactly once.
C4_UrlIsBasePlusAction ==
    Called =>
        \E n \in 0..Len(args.api_url) :
            LET stem == SubSeq(args.api_url, 1, n) IN
            /\ StripsTo(args.api_url, stem)
            /\ sent[1].url = Join(stem) \o "/DocsvaultAPI/" \o ActionPath(op)

\* The list-returning operations of C5: the name of their item node, the
\* field and key that identify an item, and the key the list is returned
\* under ("" when the list itself is returned).
ListOps ==
    {"GetReadonlyUsers", "GetWebAccessUsers", "GetConnectedUsers", "GetUserGroup",
     "GetCheckedoutFilesByUser", "GetFileVersion", "GetFileRelations"}
ItemName(o) ==
    CASE o \in {"GetReadonlyUsers", "GetWebAccessUsers", "GetConnectedUsers",
                "GetUserDetailsByName", "GetUserDetailsByID", "GetUserDetailsByEmailID"} ->
            "UserDetail"
      [] o = "GetUserGroup" -> "Group"
      [] o \in {"GetFolderDetailsByID", "GetFolderDetailsByLocation", "GetFolderProfile"} ->
            "FolderDetail"
      [] OTHER -> "FileDetail"
ItemFields(o) ==
    CASE ItemName(o) = "UserDetail" -> UserFields
      [] ItemName(o) = "Group" -> GroupFields
      [] ItemName(o) = "FolderDetail" -> FolderFields
      [] OTHER -> FileFields
IdField(o) ==
    CASE ItemName(o) = "UserDetail" -> <<"user_id", "UserID">>
      [] ItemName(o) = "Group" -> <<"group_id", "GroupID">>
      [] o = "GetFileVersion" -> <<"version", "Version">>
      [] OTHER -> <<"file_id", "FileID">>
ListKey(o) ==
    CASE o = "GetCheckedoutFilesByUser" -> "checked_out_files"
      [] o = "GetFileVersion" -> "file_versions"
      [] o = "GetFileRelations" -> "related_documents"
      [] OTHER -> ""
\* The list a list-returning operation has returned.
ReturnedList == IF ListKey(op) = "" THEN outcome.v ELSE outcome.v.v[ListKey(op)]
\* A list operation got a success envelope whose item nodes all have every field.
GotItems(n) ==
    /\ GotEnvelope /\ op \in ListOps /\ EnvStatus = "0"
    /\ Len(Items(ItemName(op))) = n
    /\ \A i \in 1..n : HasAll(Items(ItemName(op))[i], ItemFields(op))

\* C5: for GetReadonlyUsers, GetWebAccessUsers, GetConnectedUsers, GetUserGroup,
\* GetCheckedoutFilesByUser, GetFileVersion and GetFileRelations, a success
\* envelope with n >= 1 complete item nodes yields a list of length n (length 1,
\* not a bare record, for one node), its i-th entry made from the i-th node.
C5_ItemsBecomeList ==
    \A n \in 1..(MaxItems + 1) :
        GotItems(n) =>
            /\ Returned
            /\ ListKey(op) # "" => outcome.v.t = "dict"
            /\ ReturnedList.t = "list"
            /\ Len(ReturnedList.v) = n
            /\ \A i \in 1..n :
                  /\ ReturnedList.v[i].t = "dict"
                  /\ IsTextValue(ReturnedList.v[i].v[IdField(op)[1]],
                                 Kids(Items(ItemName(op))[i], IdField(op)[2])[1].text)

\* GetReadonlyUsers got exactly one UserDetail node and returned a list of one.
C5_Witness ==
    /\ GotItems(1) /\ op = "GetReadonlyUsers"
    /\ Returned /\ outcome.v.t = "list" /\ Len(outcome.v.v) = 1

\* The Indexes nodes of a FileDetail or FolderDetail node.
IndexNodes(node) ==
    IF Len(Kids(node, "ListOfIndexes")) = 0 THEN <<>>
    ELSE Kids(Kids(node, "ListOfIndexes")[1], "Indexes")
\* The Doc nodes of a GetFolderRelations envelope.
DocNodesOf ==
    IF Len(Items("RelatedDocs")) = 0 THEN <<>> ELSE Kids(Items("RelatedDocs")[1], "Doc")
IndexOps ==
    {"GetFileDetailsByID", "GetFileDetailsByLocation", "GetFileProfile",
     "GetFolderDetailsByID", "GetFolderDetailsByLocation", "GetFolderProfile"}
IndexKey(o) ==
    CASE o = "GetFileDetailsByID" -> "indexes"
      [] o = "GetFileProfile" -> "index_values"
      [] OTHER -> "list_of_indexes"
\* An operation that returns indexes got a success envelope with one complete
\* node that has n Indexes nodes.
GotIndexes(n) ==
    /\ GotEnvelope /\ op \in IndexOps /\ EnvStatus = "0"
    /\ Len(Items(ItemName(op))) = 1
    /\ HasAll(Items(ItemName(op))[1], ItemFields(op))
    /\ Len(IndexNodes(Items(ItemName(op))[1])) = n
\* GetFolderRelations got a success envelope with n complete Doc nodes.
GotDocs(n) ==
    /\ GotEnvelope /\ op = "GetFolderRelations" /\ EnvStatus = "0"
    /\ Len(DocNodesOf) = n
    /\ \A i \in 1..n : HasAll(DocNodesOf[i], DocFields)

\* C6 (as claimed): every node that the parser delivers as a lone record or as
\* a sequence reaches the caller as a list with one entry per node: the
\* Indexes nodes of the file and folder operations (one entry per node under
\* index_values for GetFileProfile) and the Doc nodes of GetFolderRelations,
\* also when the envelope holds exactly one such node.
C6_NestedNodesBecomeList ==
    \A n \in 1..(MaxItems + MaxIndexes + 1) :
        /\ GotIndexes(n) =>
              /\ Returned /\ outcome.v.t = "dict"
              /\ IF op = "GetFileProfile"
                 THEN /\ outcome.v.v[IndexKey(op)].t = "dict"
                      /\ Cardinality(DOMAIN outcome.v.v[IndexKey(op)].v) = n
                 ELSE /\ outcome.v.v[IndexKey(op)].t = "list"
                      /\ Len(outcome.v.v[IndexKey(op)].v) = n
        /\ GotDocs(n) => Returned /\ outcome.v.t = "list" /\ Len(outcome.v.v) = n

\* C7 (as claimed): every call, for every response (any HTTP status; at 200 any
\* envelope with StatusCode "0" or "1", whatever else it holds or lacks), ends
\* in a returned result, a RequestException or a ValueError, and in no other
\* exception.
C7_ThreeOutcomes ==
    (Called /\ (response.status_code # 200 \/ (GotEnvelope /\ EnvStatus \in {"0", "1"}))) =>
        Returned \/ Raised("RequestException") \/ Raised("ValueError")

\* C8: every call, for any argument strings (empty ones too), sends exactly one
\* HTTP request and then ends with a result or an error; a non-200 status or a
\* failure envelope never ends in a normal return.
C8_OneRequestThenOutcome ==
    Called =>
        /\ Len(sent) = 1
        /\ Returned \/ outcome.t = "exc"
        /\ response.status_code # 200 => ~Returned
        /\ (GotEnvelope /\ EnvStatus = "1") => ~Returned

\* GetCheckedoutFilesByUser, called with an empty token and an empty user id,
\* met a FileDetail node without a field it reads: one request, one error.
C8_Witness ==
    /\ Called /\ op = "GetCheckedoutFilesByUser"
    /\ args.token_id = "" /\ args.user_id = ""
    /\ Raised("KeyError") /\ Len(sent) = 1

\* The CheckedOut text of the only FileDetail node of the envelope.
CheckedOutText == Kids(Items("FileDetail")[1], "CheckedOut")[1].text
\* A file operation got a success envelope with one complete FileDetail node.
GotFile ==
    /\ GotEnvelope /\ EnvStatus = "0"
    /\ Len(Items("FileDetail")) = 1
    /\ HasAll(Items("FileDetail")[1], FileFields)

\* The node has a ListOfIndexes child with no Indexes node in it.
EmptyListOfIndexes(node) ==
    Len(Kids(node, "ListOfIndexes")) = 1 /\ Len(IndexNodes(node)) = 0

\* C9: for a complete FileDetail node with CheckedOut text "true"
\* (respectively "false"), GetFileDetailsByID, for a node with at least two
\* Indexes nodes, returns checked_out as the boolean true (false), and
\* GetFileDetailsByLocation, for a node whose ListOfIndexes is not an empty
\* element, returns checked_out as the string "true" ("false") unchanged.
C9_CheckedOutBoolVersusString ==
    (GotFile /\ CheckedOutText \in {"true", "false"}) =>
        /\ (op = "GetFileDetailsByID" /\ Len(IndexNodes(Items("FileDetail")[1])) >= 2) =>
              /\ Returned
              /\ outcome.v.v["checked_out"].t = "bool"
              /\ outcome.v.v["checked_out"].v = (CheckedOutText = "true")
        /\ (op = "GetFileDetailsByLocation" /\ ~EmptyListOfIndexes(Items("FileDetail")[1])) =>
              /\ Returned
              /\ outcome.v.v["checked_out"].t = "str"
              /\ outcome.v.v["checked_out"].v = CheckedOutText

\* GetFileDetailsByID returned the boolean true for CheckedOut text "true".
C9_Witness ==
    /\ GotFile /\ op = "GetFileDetailsByID" /\ CheckedOutText = "true"
    /\ Returned /\ outcome.v.v["checked_out"].t = "bool" /\ outcome.v.v["checked_out"].v

\* The keys of each wrapper's records and the source field of each.
UserMap ==
    << <<"user_id", "UserID">>, <<"user_name", "UserName">>,
      <<"full_name", "UserFullName">>, <<"description", "UserDescription">>,
      <<"email", "UserEmail">>, <<"dv_authentication", "DVAuthentication">>,
      <<"web_access", "WebAccess">>, <<"license_type", "LicenseType">> >>
ConnectedUserMap ==
    << <<"user_id", "UserID">>, <<"user_name", "UserName">>,
      <<"full_name", "UserFullName">>, <<"description", "UserDescription">>,
      <<"email", "UserEmail">>, <<"dv_authentication", "DVAuthentication">>,
      <<"web_access", "WebAccess">>, <<"login_from", "LoginFrom">>,
      <<"license_type", "LicenseType">> >>
GroupMap ==
    << <<"group_name", "GroupName">>, <<"group_id", "GroupID">>,
      <<"description", "Description">> >>
FileMap ==
    << <<"file_id", "FileID">>, <<"parent_id", "ParentID">>, <<"file_name", "FileName">>,
      <<"description", "Description">>, <<"flag_name", "FlagName">>,
      <<"file_size", "FileSize">>, <<"doc_type", "DocType">>, <<"pages", "Pages">>,
      <<"version", "Version">>, <<"version_note", "VersionNote">>,
      <<"version_owner", "VersionOwner">>, <<"version_owner_name", "VersionOwnerName">>,
      <<"modified_date", "ModifiedDate">>, <<"created_date", "CreatedDate">>,
      <<"accessed_date", "AccessedDate">>, <<"checked_out", "CheckedOut">>,
      <<"checked_out_by", "CheckedOutBy">>, <<"checked_out_by_name", "CheckedOutByName">>,
      <<"owner_id", "OwnerID">>, <<"owner_name", "OwnerName">>, <<"location", "Location">>,
      <<"doc_notes", "DocNotes">>, <<"profile_id", "ProfileID">>,
      <<"profile_name", "ProfileName">> >>
CheckedOutFileMap ==
    << <<"file_id", "FileID">>, <<"parent_id", "ParentID">>, <<"file_name", "FileName">>,
      <<"description", "Description">>, <<"flag_name", "FlagName">>,
      <<"file_size", "FileSize">>, <<"doc_type", "DocType">>, <<"pages", "Pages">>,
      <<"version", "Version">>, <<"version_note", "VersionNote">>,
      <<"version_owner", "VersionOwner">>, <<"version_owner_name", "VersionOwnerName">>,
      <<"modified_date", "ModifiedDate">>, <<"created_date", "CreatedDate">>,
      <<"accessed_date", "AccessedDate">>, <<"checked_out", "CheckedOut">>,
      <<"checked_out_by", "CheckedOutBy">>, <<"checked_out_by_name", "CheckedOutByName">>,
      <<"owner_id", "OwnerID">>, <<"owner_name", "OwnerName">>, <<"location", "Location">> >>
FileVersionMap ==
    << <<"file_size", "FileSize">>, <<"version", "Version">>,
      <<"version_note", "VersionNote">>, <<"version_owner", "VersionOwner">>,
      <<"version_owner_name", "VersionOwnerName">>, <<"created_date", "CreatedDate">>,
      <<"version_notes", "VersionNotes">> >>
RelatedFileMap ==
    << <<"file_id", "FileID">>, <<"description", "Description">>,
      <<"location", "Location">> >>
FileProfileMap ==
    << <<"flag_name", "FlagName">>, <<"doc_notes", "DocNotes">>,
      <<"profile_name", "ProfileName">> >>
FolderMap ==
    << <<"folder_id", "FolderID">>, <<"parent_id", "ParentID">>,
      <<"folder_name", "FolderName">>, <<"description", "Description">>,
      <<"flag_name", "FlagName">>, <<"has_child", "HasChild">>,
      <<"modified_date", "ModifiedDate">>, <<"created_date", "CreatedDate">>,
      <<"accessed_date", "AccessedDate">>, <<"checked_out", "CheckedOut">>,
      <<"checked_out_by", "CheckedOutBy">>, <<"checked_out_by_name", "CheckedOutByName">>,
      <<"owner_id", "OwnerID">>, <<"owner_name", "OwnerName">>, <<"location", "Location">>,
      <<"doc_notes", "DocNotes">>, <<"profile_id", "ProfileID">>,
      <<"profile_name", "ProfileName">> >>
FolderProfileMap ==
    << <<"flag_name", "FlagName">>, <<"doc_notes", "DocNotes">>,
      <<"profile_name", "ProfileName">> >>
DocMap ==
    << <<"doc_id", "DocID">>, <<"doc_name", "DocName">>, <<"doc_type", "DocType">>,
      <<"version", "Version">>, <<"folder_id", "FolderID">>,
      <<"folder_name", "FolderName">>, <<"location", "Location">>,
      <<"modified_date", "ModifiedDate">>, <<"created_date", "CreatedDate">>,
      <<"accessed_date", "AccessedDate">>, <<"size", "Size">>,
      <<"extension", "Extension">>, <<"checksum", "Checksum">>, <<"pages", "Pages">>,
      <<"author", "Author">>, <<"title", "Title">>, <<"subject", "Subject">>,
      <<"keywords", "Keywords">>, <<"category", "Category">>, <<"status", "Status">>,
      <<"comment", "Comment">>, <<"owner_id", "OwnerID">>, <<"owner_name", "OwnerName">>,
      <<"file_path", "FilePath">>, <<"doc_notes", "DocNotes">>,
      <<"workflow_status", "WorkflowStatus">>, <<"web_access", "WebAccess">>,
      <<"task_id", "TaskID">> >>
\* The keys of a table, and its source fields.
KeysOf(map) == {map[i][1] : i \in 1..Len(map)}
FieldsOf(map) == [i \in 1..Len(map) |-> map[i][2]]
\* rec has exactly the keys of map and those of extra, and under every key of
\* map not in coerced the value of the node's source field, unchanged.
Copies(rec, node, map, coerced, extra) ==
    /\ rec.t = "dict"
    /\ DOMAIN rec.v = KeysOf(map) \cup extra
    /\ \A i \in 1..Len(map) :
          map[i][1] \notin coerced =>
              IsTextValue(rec.v[map[i][1]], Kids(node, map[i][2])[1].text)
\* The table of each operation that returns records, the keys it coerces and
\* the keys it adds for nested nodes.
MapOf(o) ==
    CASE o \in {"GetUserDetailsByName", "GetUserDetailsByID", "GetUserDetailsByEmailID",
                "GetReadonlyUsers", "GetWebAccessUsers"} -> UserMap
      [] o = "GetConnectedUsers" -> ConnectedUserMap
      [] o = "GetUserGroup" -> GroupMap
      [] o \in {"GetFileDetailsByID", "GetFileDetailsByLocation"} -> FileMap
      [] o = "GetFileProfile" -> FileProfileMap
      [] o = "GetCheckedoutFilesByUser" -> CheckedOutFileMap
      [] o = "GetFileVersion" -> FileVersionMap
      [] o = "GetFileRelations" -> RelatedFileMap
      [] o \in {"GetFolderDetailsByID", "GetFolderDetailsByLocation"} -> FolderMap
      [] o = "GetFolderProfile" -> FolderProfileMap
Coerced(o) ==
    IF o \in {"GetFileDetailsByID", "GetCheckedoutFilesByUser"} THEN {"checked_out"} ELSE {}
Nested(o) ==
    IF o \in IndexOps THEN {IndexKey(o)} ELSE {}
RecordOps == IndexOps \cup {"GetUserDetailsByName", "GetUserDetailsByID", "GetUserDetailsByEmailID"}
\* An operation got a success envelope whose n item nodes have every source
\* field of its table, and returned.
ReturnedFrom(n) ==
    /\ GotEnvelope /\ EnvStatus = "0" /\ Returned
    /\ Len(Items(ItemName(op))) = n
    /\ \A i \in 1..n : HasAll(Items(ItemName(op))[i], FieldsOf(MapOf(op)))

StartsWith(s, p) == Len(s) >= Len(p) /\ SubSeq(s, 1, Len(p)) = p

\* Arguments that fit every operation: each reads the fields it takes.
AnyArgs ==
    [username |-> "a", password |-> "b", token_id |-> "tok-1", api_url |-> <<>>,
     user_name |-> "a", user_id |-> "a", email |-> "a", file_id |-> "a",
     location |-> "a", folder_id |-> "a"]

\* How a call of operation o ends when the server answers resp.
OutcomeOf(o, resp) == Invoke(o, AnyArgs, resp).outcome

\* The call ended with one of the two documented errors.
RaisedError == Raised("RequestException") \/ Raised("ValueError")

\* C11 (as claimed): every RequestException or ValueError a call raises has a
\* message that begins with the name of the operation called, and no other
\* operation raises an error with the same message for the same response.
C11_ErrorNamesOperation ==
    (Called /\ RaisedError) =>
        /\ StartsWith(outcome.msg, op)
        /\ \A o \in AllOps \ {op} : OutcomeOf(o, response) # outcome

\* The element Login and LoginPost read the token from, if the envelope has
\* it: Result/TokenID for Login, Result itself for LoginPost.
TokenElems ==
    IF op = "Login"
    THEN IF Len(EnvResult) = 0 THEN <<>> ELSE Kids(EnvResult[1], "TokenID")
    ELSE EnvResult
\* The token element holds nested elements instead of a text.
TokenNested == Len(TokenElems) = 1 /\ Len(TokenElems[1].kids) > 0
\* The token element holds a non-empty text.
HasTextToken ==
    Len(TokenElems) = 1 /\ Len(TokenElems[1].kids) = 0 /\ TokenElems[1].text # ""

IsFailureError ==
    /\ Raised("ValueError")
    /\ Len(EnvMessage) = 1
    /\ outcome.msg = ErrorLabel(op) \o EnvMessage[1].text

\* A Result that holds everything the operation reads, with at least two of
\* every nested node.
WholeResult(o) ==
    CASE o \in {"Login", "LoginPost", "Logout", "GetLoginUserID"} -> SessionSample
      [] o \in {"GetUserDetailsByName", "GetUserDetailsByID", "GetUserDetailsByEmailID",
                "GetReadonlyUsers", "GetWebAccessUsers", "GetConnectedUsers"} -> UserSample
      [] o = "GetUserGroup" -> GroupSample
      [] o \in {"GetFileDetailsByID", "GetFileDetailsByLocation", "GetFileProfile",
                "GetCheckedoutFilesByUser", "GetFileVersion", "GetFileRelations"} -> FileSample
      [] o \in {"GetFolderDetailsByID", "GetFolderDetailsByLocation", "GetFolderProfile"} ->
            FolderSample
      [] o = "GetFolderRelations" ->
            ResultElem(<<Elem("RelatedDocs", "",
                              DocNodes(<<Variant({}, NoFields), Variant({}, NoFields)>>))>>)

\* C13: for every operation, an HTTP 200 envelope with StatusCode "0" is
\* taken as success (the call never ends with the failure error, Logout
\* returns, and every operation returns when Result holds all it reads) and
\* one with StatusCode "1" is taken as failure (the call never returns, and
\* raises the ValueError with the server's message when there is one).
C13_ZeroSuccessOneFailure ==
    GotEnvelope =>
        /\ EnvStatus = "0" =>
              /\ ~IsFailureError
              /\ op = "Logout" => Returned
              /\ EnvResult = <<WholeResult(op)>> => Returned
        /\ EnvStatus = "1" =>
              /\ ~Returned
              /\ FailureWithMessage => IsFailureError

\* Logout answered StatusCode 0 with a Message has returned.
C13_Witness ==
    /\ GotEnvelope /\ op = "Logout" /\ EnvStatus = "0"
    /\ Len(EnvMessage) = 1 /\ Returned

\* The parameters of each operation, by the names the server knows them.
QueryOf(o, a) ==
    CASE o \in {"Login", "LoginPost"} -> [UserName |-> a.username, Password |-> a.password]
      [] o = "Logout" -> [TokenID |-> a.token_id, UserName |-> a.username]
      [] o \in {"GetLoginUserID", "GetReadonlyUsers", "GetWebAccessUsers",
                "GetConnectedUsers"} -> [TokenID |-> a.token_id]
      [] o = "GetUserDetailsByName" -> [TokenID |-> a.token_id, UserName |-> a.user_name]
      [] o \in {"GetUserDetailsByID", "GetUserGroup", "GetCheckedoutFilesByUser"} ->
            [TokenID |-> a.token_id, UserID |-> a.user_id]
      [] o = "GetUserDetailsByEmailID" -> [TokenID |-> a.token_id, EmailID |-> a.email]
      [] o \in {"GetFileDetailsByID", "GetFileProfile", "GetFileVersion",
                "GetFileRelations"} -> [TokenID |-> a.token_id, FileID |-> a.file_id]
      [] o \in {"GetFileDetailsByLocation", "GetFolderDetailsByLocation"} ->
            [TokenID |-> a.token_id, Location |-> a.location]
      [] o \in {"GetFolderDetailsByID", "GetFolderProfile", "GetFolderRelations"} ->
            [TokenID |-> a.token_id, FolderID |-> a.folder_id]

\* C16: LoginPost is the only operation that sends a POST and every other
\* operation sends a GET; every operation, LoginPost too, sends all of its
\* parameters in the query string and nothing in the request body.
C16_QueryParametersOnly ==
    Called =>
        /\ Len(sent) >= 1
        /\ \A i \in 1..Len(sent) :
              /\ sent[i].method = (IF op = "LoginPost" THEN "POST" ELSE "GET")
              /\ sent[i].data = None
              /\ sent[i].params = QueryOf(op, args)

\* LoginPost has sent a POST with the user name and the password in the query.
C16_Witness ==
    /\ Called /\ op = "LoginPost" /\ args.username = "a" /\ args.password = "b"
    /\ sent[1].method = "POST" /\ sent[1].data = None
    /\ sent[1].params = [UserName |-> "a", Password |-> "b"]

\* A list-returning operation got a success envelope with no item node: no
\* Result, an empty Result, or a Result that holds something else.
GotNoItems ==
    /\ GotEnvelope /\ EnvStatus = "0"
    /\ \/ op \in ListOps /\ Len(Items(ItemName(op))) = 0
       \/ op = "GetFolderRelations" /\ Len(DocNodesOf) = 0

\* C17 (as claimed): for GetReadonlyUsers, GetWebAccessUsers,
\* GetConnectedUsers, GetUserGroup, GetCheckedoutFilesByUser, GetFileVersion,
\* GetFileRelations and GetFolderRelations, a success envelope with zero item
\* nodes yields an empty list to the caller and no error.
C17_NoItemsIsEmptyList ==
    GotNoItems => (Returned /\ ReturnedList = EmptyList)

\* C18 (as claimed): on a success envelope GetFolderRelations returns a
\* dictionary that holds the related documents, the shape GetFileRelations
\* returns (a dictionary with the list under one key).
C18_FolderRelationsIsDict ==
    /\ (GotEnvelope /\ EnvStatus = "0" /\ op = "GetFolderRelations" /\ Returned) =>
          outcome.v.t = "dict"
    /\ (GotEnvelope /\ EnvStatus = "0" /\ op = "GetFileRelations" /\ Returned) =>
          outcome.v.t = "dict" /\ outcome.v.v["related_documents"].t = "list"

SessionOps == {"Login", "LoginPost", "Logout", "GetLoginUserID"}

\* The response of the call with the StatusCode of its envelope set to st.
WithStatus(st) == HttpResponse(HTTP_OK, Envelope(st, EnvMessage, EnvResult))

\* C19: for an HTTP 200 envelope whose StatusCode is neither "0" nor "1"
\* ("2" or empty), Login, LoginPost, Logout and GetLoginUserID take it as
\* success (the call ends as it does for the same envelope with StatusCode
\* "0", never with the failure error) and every other operation takes it as
\* failure (the call ends as it does for the same envelope with StatusCode
\* "1", never with a return).
C19_OppositePolarity ==
    (GotEnvelope /\ EnvStatus \notin {"0", "1"}) =>
        IF op \in SessionOps
        THEN /\ outcome = OutcomeOf(op, WithStatus("0"))
             /\ ~IsFailureError
        ELSE /\ outcome = OutcomeOf(op, WithStatus("1"))
             /\ ~Returned
             /\ Len(EnvMessage) = 1 /\ EnvMessage[1].text # "" => IsFailureError

\* GetLoginUserID answered StatusCode "2" with a complete Result has returned
\* the user id.
C19_Witness ==
    /\ GotEnvelope /\ op = "GetLoginUserID" /\ EnvStatus = "2"
    /\ Returned /\ outcome.v = S("7")

\* C20 (as claimed): given the same FileDetail node, GetFileDetailsByID and
\* GetFileDetailsByLocation return records with the same key set and the
\* same value under every key other than checked_out, the index list under
\* the same key and in the same shape.
C20_SameFileRecord ==
    (GotFile /\ op = "GetFileDetailsByID" /\ Returned) =>
        LET other == OutcomeOf("GetFileDetailsByLocation", response) IN
        /\ other.t = "return"
        /\ DOMAIN other.v.v = DOMAIN outcome.v.v
        /\ \A key \in DOMAIN outcome.v.v \ {"checked_out"} :
              other.v.v[key] = outcome.v.v[key]

\* Caller c has a call that has ended.
Ended(c) == calls[c].pc = "done"
\* Caller c has a call that has sent its request.
Started(c) == calls[c].pc \in {"waiting", "done"}
\* The calls of c and d are of the same operation with the same arguments.
SameCall(c, d) == calls[c].op = calls[d].op /\ calls[c].args = calls[d].args

TokenOps == CallerOps \ {"Login"}

\* C15: a call made with any token, one whose Logout has already succeeded
\* or one no Login has issued included, sends one request whose TokenID is
\* the caller's token unchanged, and ends as the server's response says:
\* with a result on a success envelope, with the server's message on a
\* failure envelope.
C15_TokenSentUnchanged ==
    \A c \in Callers :
        (Started(c) /\ calls[c].op \in TokenOps) =>
            /\ Len(calls[c].sent) = 1
            /\ calls[c].sent[1].params.TokenID = calls[c].args.token_id
            /\ Ended(c) =>
                  LET status == Kids(Kids(calls[c].response.content.root, "Response")[1],
                                     "StatusCode")[1].text
                  IN IF status = "0"
                     THEN calls[c].outcome.t = "return"
                     ELSE /\ calls[c].outcome.t = "exc"
                          /\ calls[c].outcome.kind = "ValueError"
                          /\ calls[c].outcome.msg = ErrorLabel(calls[c].op) \o "Invalid token"

\* A Logout of a token that no Login has issued and that an earlier Logout
\* had already ended when the call was made was sent with that token and has
\* returned.
C15_Witness ==
    \E c \in Callers :
        /\ Ended(c) /\ calls[c].op = "Logout"
        /\ calls[c].args.token_id \in calls[c].before \ issued
        /\ calls[c].sent[1].params.TokenID = calls[c].args.token_id
        /\ calls[c].outcome.t = "return"

(***************************************************************************)
(* C21 .. C26                                                              *)
(***************************************************************************)
\* The bodies a response may carry: no XML at all, a success envelope with
\* everything operation o reads, and failure envelopes.
AnyBodies(o) ==
    {NotXml, Envelope("0", NoMessage, <<WholeResult(o)>>),
     Envelope("1", <<Text("Message", "bad creds")>>, NoResult),
     Envelope("1", NoMessage, NoResult)}

GotFailure == GotEnvelope /\ EnvStatus = "1"

\* C22: in every operation the test of the envelope status precedes the
\* projection of the result: a call answered 200 with StatusCode "1" never
\* returns a token, record or list, and it ends exactly as it ends when the
\* same envelope carries no Result at all, also when the envelope holds a
\* whole well-formed Result.
C22_FailureNeverReturns ==
    GotFailure =>
        /\ ~Returned
        /\ outcome.t = "exc"
        /\ outcome = Invoke(op, args,
                            HttpResponse(200, Envelope("1", EnvMessage, NoResult))).outcome

\* A call of GetFileRelations answered 200 with StatusCode "1", a Message
\* and a whole Result has ended with the failure error and no list.
C22_Witness ==
    /\ GotFailure /\ op = "GetFileRelations"
    /\ EnvResult = <<WholeResult(op)>>
    /\ IsFailureError

\* The failure envelope has no Message element, or an empty one.
MessageEmptyOrAbsent == Len(EnvMessage) = 0 \/ EnvMessage[1].text = ""

\* C23 (as claimed): a call of any operation answered 200 with StatusCode
\* "1" and a Message that is empty or absent ends with a ValueError whose
\* message begins with the operation's label; no other kind of exception
\* ends it.
C23_FailureWithoutMessageIsApplicationError ==
    (GotFailure /\ MessageEmptyOrAbsent) =>
        /\ Raised("ValueError")
        /\ StartsWith(outcome.msg, ErrorLabel(op))

\* The UserID nodes of the Result the call got.
UserIDElems == Items("UserID")

\* GetLoginUserID got an envelope that does not report failure and whose
\* Result holds one UserID element of text.
GotUserID ==
    /\ GotEnvelope /\ op = "GetLoginUserID" /\ EnvStatus # "1"
    /\ Len(UserIDElems) = 1 /\ UserIDElems[1].kids = <<>>

\* C24: GetLoginUserID answered 200 with an envelope that does not report
\* failure returns the text of Result/UserID unchanged when the text is not
\* empty, and raises ValueError "GetLoginUserID failed. User ID not found in
\* API response." when it is empty; no call of GetLoginUserID returns an
\* empty or null user id.
C24_UserIDReturnedOrRefused ==
    /\ GotUserID =>
          IF UserIDElems[1].text # ""
          THEN outcome = Return(S(UserIDElems[1].text))
          ELSE /\ Raised("ValueError")
               /\ outcome.msg = "GetLoginUserID failed. User ID not found in API response."
    /\ (Called /\ op = "GetLoginUserID" /\ Returned) =>
          outcome.v # None /\ outcome.v # S("")

\* A call of GetLoginUserID answered 200 with StatusCode "0" and an empty
\* Result/UserID has been refused with the ValueError.
C24_Witness ==
    /\ GotUserID /\ EnvStatus = "0" /\ UserIDElems[1].text = ""
    /\ Raised("ValueError")
    /\ outcome.msg = "GetLoginUserID failed. User ID not found in API response."

\* A call of docsvault_get_user_groups with positional arguments has been made.
CalledPositional == Called /\ op = "GetUserGroup"

\* C25: of the two definitions of docsvault_get_user_groups the caller gets
\* the later one: every call docsvault_get_user_groups(a, b, c) sends its one
\* request to the URL built from b (trailing "/" removed, then
\* "/DocsvaultAPI/UserDetails/GetUserGroup") with TokenID a and UserID c, and
\* a caller who passes (token_id, user_id, api_url), the order of the first
\* definition, has the request sent to the URL built from the user id, with
\* the API URL as the UserID.
C25_LaterDefinitionWins ==
    CalledPositional =>
        LET a == args.positional[1]
            b == args.positional[2]
            c == args.positional[3]
        IN /\ Len(sent) = 1
           /\ \E n \in 0..Len(b) :
                 /\ StripsTo(b, SubSeq(b, 1, n))
                 /\ sent[1].url = Join(SubSeq(b, 1, n)) \o "/DocsvaultAPI/UserDetails/GetUserGroup"
           /\ sent[1].params = [TokenID |-> a, UserID |-> Join(c)]
           /\ args.order = "first" =>
                 /\ sent[1].url = args.user_id \o "/DocsvaultAPI/UserDetails/GetUserGroup"
                 /\ sent[1].params.UserID = Join(args.api_url)

\* A caller has passed ("tok-1", "a", "http://host"), the order of the first
\* definition; the request went to "a/DocsvaultAPI/UserDetails/GetUserGroup"
\* with UserID "http://host".
C25_Witness ==
    /\ CalledPositional /\ args.order = "first"
    /\ args.positional = <<"tok-1", <<"a">>, <<"http:", "/", "/", "host">> >>
    /\ sent[1].url = "a/DocsvaultAPI/UserDetails/GetUserGroup"
    /\ sent[1].params = [TokenID |-> "tok-1", UserID |-> "http://host"]

\* The two operations that make checked_out a boolean.
BoolOps == {"GetFileDetailsByID", "GetCheckedoutFilesByUser"}

\* The fields of a FileDetail node that operation o reads by subscript: all
\* it reads but the three CheckedOut fields.
SubscriptFields(o) ==
    SelectSeq(FieldsOf(MapOf(o)),
              LAMBDA f : f \notin {"CheckedOut", "CheckedOutBy", "CheckedOutByName"})

\* The node has a CheckedOut element whose text is exactly "true".
CheckedOutIsTrue(node) ==
    Len(Kids(node, "CheckedOut")) = 1 /\ Kids(node, "CheckedOut")[1].text = "true"

\* One of the two operations got a success envelope whose FileDetail nodes
\* (one for GetFileDetailsByID, with at least two Indexes nodes) have every
\* field read by subscript; CheckedOut may hold any text or be absent.
GotFilesAnyCheckedOut ==
    /\ GotEnvelope /\ EnvStatus = "0" /\ op \in BoolOps
    /\ Len(Items("FileDetail")) >= 1
    /\ \A i \in 1..Len(Items("FileDetail")) :
          HasAll(Items("FileDetail")[i], SubscriptFields(op))
    /\ op = "GetFileDetailsByID" =>
          /\ Len(Items("FileDetail")) = 1
          /\ Len(IndexNodes(Items("FileDetail")[1])) >= 2

\* The records of the returned value, in the order of the FileDetail nodes.
ReturnedFileRecords ==
    IF op = "GetFileDetailsByID" THEN <<outcome.v>> ELSE ReturnedList.v

\* C26: in GetFileDetailsByID and GetCheckedoutFilesByUser the checked_out
\* of each record is the boolean true if and only if the node's CheckedOut
\* text is exactly "true"; any other text ("True", "1", "false", empty) and
\* an absent CheckedOut give the boolean false and raise nothing, and
\* whenever either operation returns, every checked_out is a boolean.
C26_CheckedOutIsExactlyTrue ==
    /\ GotFilesAnyCheckedOut =>
          /\ Returned
          /\ Len(ReturnedFileRecords) = Len(Items("FileDetail"))
          /\ \A i \in 1..Len(Items("FileDetail")) :
                ReturnedFileRecords[i].v["checked_out"] =
                    B(CheckedOutIsTrue(Items("FileDetail")[i]))
    /\ (Called /\ op \in BoolOps /\ Returned) =>
          \A i \in 1..Len(ReturnedFileRecords) :
              ReturnedFileRecords[i].v["checked_out"].t = "bool"

\* GetCheckedoutFilesByUser got two complete FileDetail nodes, the first with
\* CheckedOut "True" and the second with no CheckedOut, and returned two
\* records whose checked_out is the boolean false.
C26_Witness ==
    /\ GotFilesAnyCheckedOut /\ op = "GetCheckedoutFilesByUser"
    /\ Len(Items("FileDetail")) = 2
    /\ Len(Kids(Items("FileDetail")[1], "CheckedOut")) = 1
    /\ Kids(Items("FileDetail")[1], "CheckedOut")[1].text = "True"
    /\ Len(Kids(Items("FileDetail")[2], "CheckedOut")) = 0
    /\ Returned
    /\ \A i \in 1..2 : ReturnedFileRecords[i].v["checked_out"] = B(FALSE)

====
